---- MODULE Spec2Model ----
(***************************************************************************)
(* A model of the Wavefront OBJ reader and writer of src/src/obj.rs.       *)
(*                                                                         *)
(* Text is modelled at the level of characters: a line is a sequence of    *)
(* one-character strings, a buffer is a sequence of lines (what            *)
(* BufRead::lines yields and what writeln! emits).  Option<T> is a         *)
(* sequence of length 0 (None) or 1 (Some).  usize and isize keep a width  *)
(* of UsizeBits bits.  f32 values are the integers, written and read in    *)
(* decimal (the subset of f32 literals the inputs use).                    *)
(***************************************************************************)
EXTENDS Integers, Sequences, FiniteSets, TLC

(* ---------------------------------------------------------------- bounds *)

\* Width of usize / isize in the model (64 on the usual targets).
UsizeBits == 12

\* The longest MTL buffer.
MaxLinesMtl == 4

MaxLinesRoundTrip == 5

MaxLinesPolygon == 2

\* The longest input of the loader of 2014.
MaxLinesLegacy == 4

\* Longest input, in lines, per class of input.
MaxLinesFields == 3
MaxLinesMaterials == 6
MaxLinesGroups == 5
MaxLinesMisc == 3
MaxLinesRelative == 10
MaxLinesWellFormed == 3
MaxLinesObjects == 5
MaxLinesLibs == 3

\* Most `f` lines in an input of the class "relative".
MaxFacesRelative == 2

(* ------------------------------------------------------------ primitives *)

None == <<>>

Some(x) == <<x>>

IsSome(o) == o # <<>>

Unwrap(o) == o[1]

Pow2W == 2 ^ UsizeBits

IsizeMax == 2 ^ (UsizeBits - 1) - 1

IsizeMin == 0 - 2 ^ (UsizeBits - 1)

Digits == <<"0", "1", "2", "3", "4", "5", "6", "7", "8", "9">>

IsDigit(c) == \E d \in 1..10 : Digits[d] = c

DigitVal(c) == (CHOOSE d \in 1..10 : Digits[d] = c) - 1

\* char::is_whitespace, for the characters the inputs use.
IsWhite(c) == c \in {" ", "\t"}

RECURSIVE SkipWhite(_)
SkipWhite(s) ==
    IF s # <<>> /\ IsWhite(Head(s)) THEN SkipWhite(Tail(s)) ELSE s

RECURSIVE TakeWord(_)
TakeWord(s) ==
    IF s = <<>> \/ IsWhite(Head(s)) THEN <<>> ELSE <<Head(s)>> \o TakeWord(Tail(s))

\* str::split_whitespace: the non-empty maximal runs of non-whitespace.
RECURSIVE SplitWhitespace(_)
SplitWhitespace(line) ==
    LET s == SkipWhite(line)
    IN  IF s = <<>> THEN <<>>
        ELSE LET w == TakeWord(s)
             IN  <<w>> \o SplitWhitespace(SubSeq(s, Len(w) + 1, Len(s)))

RECURSIVE TrimEnd(_)
TrimEnd(s) ==
    IF s # <<>> /\ IsWhite(s[Len(s)]) THEN TrimEnd(SubSeq(s, 1, Len(s) - 1)) ELSE s

\* str::trim
Trim(s) == TrimEnd(SkipWhite(s))

\* str::split('/'): the pieces between slashes, empty pieces included.
RECURSIVE SplitSlash(_)
SplitSlash(s) ==
    IF \E i \in 1..Len(s) : s[i] = "/"
    THEN LET i == CHOOSE i \in 1..Len(s) : s[i] = "/" /\ \A j \in 1..(i - 1) : s[j] # "/"
         IN  <<SubSeq(s, 1, i - 1)>> \o SplitSlash(SubSeq(s, i + 1, Len(s)))
    ELSE <<s>>

\* The value of a digit string, saturating above the isize range so that
\* the arithmetic stays small.
RECURSIVE DigitsValue(_, _)
DigitsValue(ds, acc) ==
    IF ds = <<>> THEN acc
    ELSE LET v == acc * 10 + DigitVal(Head(ds))
         IN  DigitsValue(Tail(ds), IF v > Pow2W THEN Pow2W ELSE v)

AllDigits(ds) == ds # <<>> /\ \A i \in 1..Len(ds) : IsDigit(ds[i])

\* <isize as FromStr>::from_str(s).ok(): an optional sign, then one or more
\* digits; a value outside the isize range is an error.
FromStrIsize(s) ==
    LET neg  == s # <<>> /\ Head(s) = "-"
        sign == s # <<>> /\ Head(s) \in {"-", "+"}
        ds   == IF sign THEN Tail(s) ELSE s
    IN  IF ~AllDigits(ds) THEN None
        ELSE LET m == DigitsValue(ds, 0)
                 v == IF neg THEN 0 - m ELSE m
             IN  IF v < IsizeMin \/ v > IsizeMax THEN None ELSE Some(v)

\* <f32 as FromStr>::from_str(s).ok() on decimal integer literals.
FromStrF32(s) ==
    LET neg  == s # <<>> /\ Head(s) = "-"
        sign == s # <<>> /\ Head(s) \in {"-", "+"}
        ds   == IF sign THEN Tail(s) ELSE s
    IN  IF ~AllDigits(ds) THEN None
        ELSE LET m == DigitsValue(ds, 0)
             IN  Some(IF neg THEN 0 - m ELSE m)

\* Display of an unsigned integer: its decimal digits.
RECURSIVE DisplayUsize(_)
DisplayUsize(n) ==
    IF n < 10 THEN <<Digits[n + 1]>>
    ELSE DisplayUsize(n \div 10) \o <<Digits[(n % 10) + 1]>>

\* Display of an integer-valued f32.
DisplayF32(v) == IF v < 0 THEN <<"-">> \o DisplayUsize(0 - v) ELSE DisplayUsize(v)

\* words.next(), k times: the k-th word if there is one.
Nth(words, k) == IF k <= Len(words) THEN Some(words[k]) ELSE None

RECURSIVE JoinWith(_, _)
JoinWith(words, sep) ==
    IF words = <<>> THEN <<>>
    ELSE IF Len(words) = 1 THEN words[1]
    ELSE words[1] \o sep \o JoinWith(Tail(words), sep)

(* ------------------------------------------------------------ data model *)

DEFAULT_OBJECT == <<"d", "e", "f", "a", "u", "l", "t">>

DEFAULT_GROUP == <<"d", "e", "f", "a", "u", "l", "t">>

\* ObjData::default()
ObjDataDefault ==
    [position |-> <<>>, texture |-> <<>>, normal |-> <<>>,
     objects |-> <<>>, material_libs |-> <<>>]

\* Object::new(name)
ObjectNew(name) == [name |-> name, groups |-> <<>>]

\* Group::new(name)
GroupNew(name) == [name |-> name, index |-> 0, material |-> None, polys |-> <<>>]

\* ObjMaterial::Ref(name)
MaterialRef(name) == [kind |-> "Ref", name |-> name]

\* Mtl::new(filename)
MtlNew(filename) == [filename |-> filename, materials |-> <<>>]

\* An ObjError value: its variant, its line_number and its other field.
ObjError(kind, line_number, detail) ==
    [kind |-> kind, line_number |-> line_number, detail |-> detail]

Err(e) == [ok |-> FALSE, err |-> e]

Ok(v) == [ok |-> TRUE, val |-> v]

(* ---------------------------------------------------------- the resolver *)

\* normalize with a relative index counted from one past the end.
normalize_OffByOne(idx, len) ==
    IF idx < 0 THEN Some((len + idx + 1) % Pow2W)
    ELSE IF idx > 0 THEN Some(idx - 1)
    ELSE None

\* normalize(idx, len): the cast `as usize` wraps a negative sum.
normalize(idx, len) ==
    IF idx < 0 THEN Some((len + idx) % Pow2W)
    ELSE IF idx > 0 THEN Some(idx - 1)
    ELSE None

\* The same with a zero index kept as index 0 instead of being dropped.
NormalizeOpt_ZeroKept(o, len) ==
    IF IsSome(o)
    THEN (IF Unwrap(o) = 0 THEN Some(0) ELSE normalize(Unwrap(o), len))
    ELSE None

\* Option::map(f).flatten() with f = normalize(_, len)
NormalizeOpt(o, len) == IF IsSome(o) THEN normalize(Unwrap(o), len) ELSE None

\* parse_group with a zero position reported as a malformed field.
parse_group_ZeroAsMalformed(dat, line_number, field) ==
    LET parts == SplitSlash(field)
        p == FromStrIsize(parts[1])
        t == IF Len(parts) >= 2 /\ parts[2] # <<>> THEN FromStrIsize(parts[2]) ELSE None
        n == IF Len(parts) >= 3 THEN FromStrIsize(parts[3]) ELSE None
    IN  IF IsSome(p) /\ IsSome(normalize(Unwrap(p), Len(dat.position)))
        THEN Ok(<<Unwrap(normalize(Unwrap(p), Len(dat.position))),
                  NormalizeOpt(t, Len(dat.texture)),
                  NormalizeOpt(n, Len(dat.normal))>>)
        ELSE Err(ObjError("MalformedFaceGroup", line_number, field))

\* ObjData::parse_group: one `p[/t][/n]` field to an IndexTuple.
parse_group(dat, line_number, field) ==
    LET parts == SplitSlash(field)
        p == FromStrIsize(parts[1])
        t == IF Len(parts) >= 2 /\ parts[2] # <<>> THEN FromStrIsize(parts[2]) ELSE None
        n == IF Len(parts) >= 3 THEN FromStrIsize(parts[3]) ELSE None
    IN  IF IsSome(p)
        THEN LET pos == normalize(Unwrap(p), Len(dat.position))
             IN  IF IsSome(pos)
                 THEN Ok(<<Unwrap(pos),
                           NormalizeOpt(t, Len(dat.texture)),
                           NormalizeOpt(n, Len(dat.normal))>>)
                 ELSE Err(ObjError("ZeroVertexNumber", line_number, <<>>))
        ELSE Err(ObjError("MalformedFaceGroup", line_number, field))

\* ObjData::parse_face: the fields in order, stopping at the first error.
RECURSIVE parse_face_from(_, _, _, _)
parse_face_from(dat, line_number, groups, ret) ==
    IF groups = <<>> THEN Ok(ret)
    ELSE LET ituple == parse_group(dat, line_number, Head(groups))
         IN  IF ituple.ok
             THEN parse_face_from(dat, line_number, Tail(groups), Append(ret, ituple.val))
             ELSE ituple

parse_face(dat, line_number, groups) == parse_face_from(dat, line_number, groups, <<>>)

\* ObjData::parse_two
parse_two(line_number, n0, n1) ==
    IF IsSome(n0) /\ IsSome(n1)
    THEN LET f0 == FromStrF32(Unwrap(n0))
             f1 == FromStrF32(Unwrap(n1))
         IN  IF IsSome(f0) /\ IsSome(f1)
             THEN Ok(<<Unwrap(f0), Unwrap(f1)>>)
             ELSE Err(ObjError("ArgumentListFailure", line_number, <<n0, n1>>))
    ELSE Err(ObjError("ArgumentListFailure", line_number, <<n0, n1>>))

\* ObjData::parse_three
parse_three(line_number, n0, n1, n2) ==
    IF IsSome(n0) /\ IsSome(n1) /\ IsSome(n2)
    THEN LET f0 == FromStrF32(Unwrap(n0))
             f1 == FromStrF32(Unwrap(n1))
             f2 == FromStrF32(Unwrap(n2))
         IN  IF IsSome(f0) /\ IsSome(f1) /\ IsSome(f2)
             THEN Ok(<<Unwrap(f0), Unwrap(f1), Unwrap(f2)>>)
             ELSE Err(ObjError("ArgumentListFailure", line_number, <<n0, n1, n2>>))
    ELSE Err(ObjError("ArgumentListFailure", line_number, <<n0, n1, n2>>))

(* ------------------------------------------------------------ the parser *)

\* The locals of load_buf_with_config before the first line.
ParserStart ==
    [dat |-> ObjDataDefault, object |-> ObjectNew(DEFAULT_OBJECT), group |-> None]

\* Some("v")
BranchV_Prepend(st, words, idx) ==
    LET r == parse_three(idx, Nth(words, 2), Nth(words, 3), Nth(words, 4))
    IN  IF r.ok
        THEN Ok([st EXCEPT !.dat.position = <<r.val>> \o @])
        ELSE r

\* Some("v")
BranchV(st, words, idx) ==
    LET r == parse_three(idx, Nth(words, 2), Nth(words, 3), Nth(words, 4))
    IN  IF r.ok
        THEN Ok([st EXCEPT !.dat.position = Append(@, r.val)])
        ELSE r

\* Some("vt")
BranchVt(st, words, idx) ==
    LET r == parse_two(idx, Nth(words, 2), Nth(words, 3))
    IN  IF r.ok
        THEN Ok([st EXCEPT !.dat.texture = Append(@, r.val)])
        ELSE r

\* Some("vn")
BranchVn(st, words, idx) ==
    LET r == parse_three(idx, Nth(words, 2), Nth(words, 3), Nth(words, 4))
    IN  IF r.ok
        THEN Ok([st EXCEPT !.dat.normal = Append(@, r.val)])
        ELSE r

\* An `f` branch that puts the new polygon in front of the group's polygons.
BranchF_Prepend(st, words, idx) ==
    LET poly == parse_face(st.dat, idx, Tail(words))
    IN  IF poly.ok
        THEN LET g == IF IsSome(st.group) THEN Unwrap(st.group)
                      ELSE GroupNew(DEFAULT_GROUP)
             IN  Ok([st EXCEPT !.group = Some([g EXCEPT !.polys = <<poly.val>> \o @])])
        ELSE poly

\* Some("f")
BranchF(st, words, idx) ==
    LET poly == parse_face(st.dat, idx, Tail(words))
    IN  IF poly.ok
        THEN LET g == IF IsSome(st.group) THEN Unwrap(st.group)
                      ELSE GroupNew(DEFAULT_GROUP)
             IN  Ok([st EXCEPT !.group = Some([g EXCEPT !.polys = Append(@, poly.val)])])
        ELSE poly

\* An `o` branch that pushes the current object whether or not a group is
\* open.
BranchO_AlwaysPush(st, line) ==
    LET closed == [st EXCEPT
                     !.dat.objects = Append(@, [st.object EXCEPT !.groups = @ \o st.group]),
                     !.group = None]
        name == IF Len(line) > 2 THEN Trim(SubSeq(line, 2, Len(line)))
                ELSE DEFAULT_OBJECT
    IN  Ok([closed EXCEPT !.object = ObjectNew(name)])

\* Some("o")
BranchO(st, line) ==
    LET closed == IF IsSome(st.group)
                  THEN [st EXCEPT
                          !.dat.objects =
                              Append(@, [st.object EXCEPT
                                           !.groups = Append(@, Unwrap(st.group))]),
                          !.group = None]
                  ELSE st
        name == IF Len(line) > 2 THEN Trim(SubSeq(line, 2, Len(line)))
                ELSE DEFAULT_OBJECT
    IN  Ok([closed EXCEPT !.object = ObjectNew(name)])

\* Some("g")
BranchG(st, line) ==
    LET taken == [st EXCEPT !.object.groups = @ \o st.group, !.group = None]
    IN  IF Len(line) > 2
        THEN Ok([taken EXCEPT !.group = Some(GroupNew(Trim(SubSeq(line, 3, Len(line)))))])
        ELSE Ok(taken)

\* A `mtllib` branch that records the first word only.
BranchMtllib_FirstWord(st, words, idx) ==
    IF Len(words) < 2
    THEN Err(ObjError("MissingMTLName", idx, <<>>))
    ELSE Ok([st EXCEPT !.dat.material_libs = Append(@, MtlNew(words[2]))])

\* Some("mtllib")
BranchMtllib(st, words, idx) ==
    IF Len(words) < 2
    THEN Err(ObjError("MissingMTLName", idx, <<>>))
    ELSE Ok([st EXCEPT !.dat.material_libs =
                           Append(@, MtlNew(JoinWith(Tail(words), <<" ">>)))])

\* A `usemtl` branch that starts the next group of a split without pushing
\* the group it splits from.
BranchUsemtl_NoPush(st, words) ==
    LET g0 == IF IsSome(st.group) THEN Unwrap(st.group) ELSE GroupNew(DEFAULT_GROUP)
        split == IsSome(g0.material)
        g1 == IF split
              THEN [g0 EXCEPT !.index = (@ + 1) % Pow2W, !.polys = <<>>]
              ELSE g0
        material == IF Len(words) >= 2 THEN Some(MaterialRef(words[2])) ELSE None
    IN  Ok([st EXCEPT !.group = Some([g1 EXCEPT !.material = material])])

\* Some("usemtl")
BranchUsemtl(st, words) ==
    LET g0 == IF IsSome(st.group) THEN Unwrap(st.group) ELSE GroupNew(DEFAULT_GROUP)
        split == IsSome(g0.material)
        g1 == IF split
              THEN [g0 EXCEPT !.index = (@ + 1) % Pow2W, !.polys = <<>>]
              ELSE g0
        material == IF Len(words) >= 2 THEN Some(MaterialRef(words[2])) ELSE None
    IN  Ok([st EXCEPT
              !.object.groups = IF split THEN Append(@, g0) ELSE @,
              !.group = Some([g1 EXCEPT !.material = material])])

\* An unknown-command branch that skips the line in both modes.
BranchOther_AlwaysSkip(st, words, idx, strict) == Ok(st)

\* An `other` branch that rejects comments too in strict mode.
BranchOther_CommentsFail(st, words, idx, strict) ==
    IF strict
    THEN Err(ObjError("UnexpectedCommand", idx, words[1]))
    ELSE Ok(st)

\* Some(other)
BranchOther(st, words, idx, strict) ==
    IF strict /\ Head(words[1]) # "#"
    THEN Err(ObjError("UnexpectedCommand", idx, words[1]))
    ELSE Ok(st)

Kw_v == <<"v">>

Kw_vt == <<"v", "t">>

Kw_vn == <<"v", "n">>

Kw_f == <<"f">>

Kw_o == <<"o">>

Kw_g == <<"g">>

Kw_mtllib == <<"m", "t", "l", "l", "i", "b">>

Kw_usemtl == <<"u", "s", "e", "m", "t", "l">>

Kw_s == <<"s">>

Kw_l == <<"l">>

\* words.next() of a line: its first word, if any.
First(line) == Nth(SplitWhitespace(line), 1)

\* The body of the loop of load_buf_with_config: one line, by its first word.
ParseLine(st, line, idx, strict) ==
    LET words == SplitWhitespace(line)
        first == Nth(words, 1)
    IN  CASE first = Some(Kw_v) -> BranchV(st, words, idx)
          [] first = Some(Kw_vt) -> BranchVt(st, words, idx)
          [] first = Some(Kw_vn) -> BranchVn(st, words, idx)
          [] first = Some(Kw_f) -> BranchF(st, words, idx)
          [] first = Some(Kw_o) -> BranchO(st, line)
          [] first = Some(Kw_g) -> BranchG(st, line)
          [] first = Some(Kw_mtllib) -> BranchMtllib(st, words, idx)
          [] first = Some(Kw_usemtl) -> BranchUsemtl(st, words)
          [] first = Some(Kw_s) -> Ok(st)
          [] first = Some(Kw_l) -> Ok(st)
          [] first = None -> Ok(st)
          [] OTHER -> BranchOther(st, words, idx, strict)

\* After the loop: the pending group and the current object are pushed.
Finish(st) ==
    LET object == [st.object EXCEPT !.groups = @ \o st.group]
    IN  [st.dat EXCEPT !.objects = Append(@, object)]

\* load_buf_with_config on a whole buffer, from line idx on.
RECURSIVE LoadLines(_, _, _, _)
LoadLines(st, lines, idx, strict) ==
    IF lines = <<>> THEN Ok(Finish(st))
    ELSE LET r == ParseLine(st, Head(lines), idx, strict)
         IN  IF r.ok THEN LoadLines(r.val, Tail(lines), idx + 1, strict) ELSE r

load_buf_with_config(input, strict) == LoadLines(ParserStart, input, 0, strict)

\* ObjData::load_buf: LoadConfig::default() is strict.
load_buf(input) == load_buf_with_config(input, TRUE)

(* ------------------------------------------------- the material libraries *)

\* The largest i32.
I32Max == 2147483647

\* Material::new(name)
MaterialNew(name) ==
    [name |-> name,
     ka |-> None, kd |-> None, ks |-> None, ke |-> None, km |-> None,
     tf |-> None, ns |-> None, ni |-> None, tr |-> None, d |-> None,
     illum |-> None,
     map_ka |-> None, map_kd |-> None, map_ks |-> None, map_ke |-> None,
     map_ns |-> None, map_d |-> None, map_bump |-> None, map_refl |-> None]

\* An MtlError value: its variant and what it carries.
MtlError(kind, detail) == [kind |-> kind, detail |-> detail]

\* <i32 as FromStr>::from_str(s).ok()
FromStrI32(s) ==
    LET neg  == s # <<>> /\ Head(s) = "-"
        sign == s # <<>> /\ Head(s) \in {"-", "+"}
        ds   == IF sign THEN Tail(s) ELSE s
    IN  IF ~AllDigits(ds) THEN None
        ELSE LET m == DigitsValue(ds, 0)
                 v == IF neg THEN 0 - m ELSE m
             IN  IF v < 0 - I32Max - 1 \/ v > I32Max THEN None ELSE Some(v)

\* The end of get_vec: the three words parsed.
VecResult(x, y, z) ==
    IF IsSome(x) /\ IsSome(y) /\ IsSome(z)
    THEN Ok(<<Unwrap(x), Unwrap(y), Unwrap(z)>>)
    ELSE Err(MtlError("InvalidValue", <<x, y, z>>))

\* Parser::get_vec on the words that follow the instruction.
get_vec(args) ==
    IF Len(args) < 3
    THEN Err(MtlError("InvalidValue", <<Nth(args, 1), Nth(args, 2), Nth(args, 3)>>))
    ELSE VecResult(FromStrF32(args[1]), FromStrF32(args[2]), FromStrF32(args[3]))

\* FromStr::from_str(v).map_err(|_| MtlError::InvalidValue(v.to_string()))
ValueResult(parsed, v) ==
    IF IsSome(parsed) THEN Ok(Unwrap(parsed)) ELSE Err(MtlError("InvalidValue", v))

\* Parser::get_i32
get_i32(args) ==
    IF args = <<>> THEN Err(MtlError("MissingValue", "I32"))
    ELSE ValueResult(FromStrI32(args[1]), args[1])

\* Parser::get_f32
get_f32(args) ==
    IF args = <<>> THEN Err(MtlError("MissingValue", "F32"))
    ELSE ValueResult(FromStrF32(args[1]), args[1])

\* Parser::into_string: the remaining words joined by single spaces.
into_string(args) ==
    IF args = <<>> THEN Err(MtlError("MissingValue", "String"))
    ELSE Ok(JoinWith(args, <<" ">>))

Kw_newmtl == <<"n", "e", "w", "m", "t", "l">>

\* The instructions read with get_vec, and the field each one sets.
VecInstructions ==
    { <<<<"K", "a">>, "ka">>,
      <<<<"K", "d">>, "kd">>,
      <<<<"K", "s">>, "ks">>,
      <<<<"K", "e">>, "ke">>,
      <<<<"T", "f">>, "tf">> }

\* The instructions read with get_f32.
F32Instructions ==
    { <<<<"N", "s">>, "ns">>,
      <<<<"N", "i">>, "ni">>,
      <<<<"K", "m">>, "km">>,
      <<<<"d">>, "d">>,
      <<<<"T", "r">>, "tr">> }

\* The instructions read with get_i32.
I32Instructions ==
    { <<<<"i", "l", "l", "u", "m">>, "illum">> }

\* The instructions read with into_string.
StringInstructions ==
    { <<<<"m", "a", "p", "_", "K", "a">>, "map_ka">>,
      <<<<"m", "a", "p", "_", "K", "d">>, "map_kd">>,
      <<<<"m", "a", "p", "_", "K", "s">>, "map_ks">>,
      <<<<"m", "a", "p", "_", "d">>, "map_d">>,
      <<<<"m", "a", "p", "_", "r", "e", "f", "l">>, "map_refl">>,
      <<<<"r", "e", "f", "l">>, "map_refl">>,
      <<<<"m", "a", "p", "_", "b", "u", "m", "p">>, "map_bump">>,
      <<<<"m", "a", "p", "_", "B", "u", "m", "p">>, "map_bump">>,
      <<<<"b", "u", "m", "p">>, "map_bump">> }

ValueInstructions ==
    VecInstructions \cup F32Instructions \cup I32Instructions \cup StringInstructions

\* The value an instruction reads from the words that follow it.
MtlValue(key, args) ==
    IF \E p \in VecInstructions : p[1] = key THEN get_vec(args)
    ELSE IF \E p \in F32Instructions : p[1] = key THEN get_f32(args)
    ELSE IF \E p \in I32Instructions : p[1] = key THEN get_i32(args)
    ELSE into_string(args)

\* The state of Mtl::reload: the library's materials and the material under
\* construction.
MtlStart == [materials |-> <<>>, material |-> None]

\* Some("newmtl"): the material under construction is pushed, then the name
\* is read.
MtlBranchNewmtl(st, words) ==
    LET pushed == [st EXCEPT !.materials = @ \o st.material, !.material = None]
    IN  IF Len(words) < 2
        THEN [st |-> pushed, res |-> Err(MtlError("MissingMaterialName", <<>>))]
        ELSE [st |-> [pushed EXCEPT !.material = Some(MaterialNew(words[2]))],
              res |-> Ok(<<>>)]

\* A store that keeps the value a field already has.
MtlStore_FirstWins(st, field, value) ==
    IF ~value.ok THEN [st |-> st, res |-> value]
    ELSE [st |-> [st EXCEPT !.material =
                      Some([Unwrap(st.material) EXCEPT
                                ![field] = IF IsSome(@) THEN @ ELSE Some(value.val)])],
          res |-> Ok(<<>>)]

\* m.field = Some(value?): the error is returned or the value stored.
MtlStore(st, field, value) ==
    IF ~value.ok THEN [st |-> st, res |-> value]
    ELSE [st |-> [st EXCEPT !.material =
                      Some([Unwrap(st.material) EXCEPT ![field] = Some(value.val)])],
          res |-> Ok(<<>>)]

\* A coefficient or map instruction whose arguments are read before the
\* material under construction is looked at.
MtlBranchValue_ParseFirst(st, words) ==
    IF ~MtlValue(words[1], Tail(words)).ok
    THEN [st |-> st, res |-> MtlValue(words[1], Tail(words))]
    ELSE IF ~IsSome(st.material) THEN [st |-> st, res |-> Ok(<<>>)]
    ELSE MtlStore(st, (CHOOSE p \in ValueInstructions : p[1] = words[1])[2],
                  MtlValue(words[1], Tail(words)))

\* A coefficient or map instruction: read and stored only while a material
\* is under construction.
MtlBranchValue(st, words) ==
    IF ~IsSome(st.material) THEN [st |-> st, res |-> Ok(<<>>)]
    ELSE MtlStore(st, (CHOOSE p \in ValueInstructions : p[1] = words[1])[2],
                  MtlValue(words[1], Tail(words)))

\* An `other` branch that skips whatever it does not know.
MtlBranchOther_AlwaysSkip(st, words) == [st |-> st, res |-> Ok(<<>>)]

\* Some(other)
MtlBranchOther(st, words) ==
    IF Head(words[1]) # "#"
    THEN [st |-> st, res |-> Err(MtlError("InvalidInstruction", words[1]))]
    ELSE [st |-> st, res |-> Ok(<<>>)]

\* The match on the first word of a line.
MtlBranch(st, words) ==
    IF words = <<>> THEN [st |-> st, res |-> Ok(<<>>)]
    ELSE IF words[1] = Kw_newmtl THEN MtlBranchNewmtl(st, words)
    ELSE IF \E p \in ValueInstructions : p[1] = words[1] THEN MtlBranchValue(st, words)
    ELSE MtlBranchOther(st, words)

\* One turn of the loop of Mtl::reload.
MtlParseLine(st, line) == MtlBranch(st, SplitWhitespace(line))

\* The loop of Mtl::reload and what follows it; an error returns at once
\* and leaves in the library what has been pushed so far.
RECURSIVE MtlLoadLines(_, _)
MtlAfterLine(r, rest) ==
    IF r.res.ok THEN MtlLoadLines(r.st, rest)
    ELSE [materials |-> r.st.materials, res |-> r.res]

MtlLoadLines(st, lines) ==
    IF lines = <<>>
    THEN [materials |-> st.materials \o st.material, res |-> Ok(<<>>)]
    ELSE MtlAfterLine(MtlParseLine(st, Head(lines)), Tail(lines))

\* A library that keeps what it held and adds what the loop read.
MtlWith_Append(mtl, r) ==
    [mtl |-> [mtl EXCEPT !.materials = @ \o r.materials], res |-> r.res]

\* The library with what the loop left in self.materials.
MtlWith(mtl, r) == [mtl |-> [mtl EXCEPT !.materials = r.materials], res |-> r.res]

\* Mtl::reload: the library afterwards and the result.
reload(mtl, input) == MtlWith(mtl, MtlLoadLines(MtlStart, input))

\* Mtl::reload_with: `found` is what resolve returned for the file name, an
\* io::Error or the lines of the file.
reload_with(mtl, found) ==
    IF found.ok THEN reload(mtl, found.val)
    ELSE [mtl |-> mtl, res |-> Err(MtlError("Io", found.err))]

\* ObjMaterial::Mtl(material)
MaterialMtl(material) == [kind |-> "Mtl", material |-> material]

\* ObjMaterial::name
MaterialName(mat) == IF mat.kind = "Ref" THEN mat.name ELSE mat.material.name

\* materials.entry(name).or_insert_with(..) with the last definition kept.
EntryOrInsert_Overwrite(materials, m) ==
    IF \E i \in 1..Len(materials) : materials[i].name = m.name
    THEN [i \in 1..Len(materials) |->
             IF materials[i].name = m.name THEN m ELSE materials[i]]
    ELSE Append(materials, m)

\* materials.entry(name).or_insert_with(..): the map, kept as the list of
\* its values, gets m unless it holds a material of that name.
EntryOrInsert(materials, m) ==
    IF \E i \in 1..Len(materials) : materials[i].name = m.name
    THEN materials
    ELSE Append(materials, m)

RECURSIVE InsertAll(_, _)
InsertAll(materials, ms) ==
    IF ms = <<>> THEN materials
    ELSE InsertAll(EntryOrInsert(materials, Head(ms)), Tail(ms))

\* The match on what reload_with returned, giving up once a library has
\* failed: the libraries after it are not attempted.
LibLoaded_StopAtError(acc, lib, r) ==
    IF acc.errs # <<>> THEN [acc EXCEPT !.libs = Append(@, lib)]
    ELSE IF r.res.ok
    THEN [acc EXCEPT !.libs = Append(@, r.mtl),
                     !.materials = InsertAll(@, r.mtl.materials)]
    ELSE [acc EXCEPT !.libs = Append(@, r.mtl),
                     !.errs = Append(@, <<lib.filename, r.res.err>>)]

\* The match on what reload_with returned: the materials go to the map or
\* the error to the list.
LibLoaded(acc, lib, r) ==
    IF r.res.ok
    THEN [acc EXCEPT !.libs = Append(@, r.mtl),
                     !.materials = InsertAll(@, r.mtl.materials)]
    ELSE [acc EXCEPT !.libs = Append(@, r.mtl),
                     !.errs = Append(@, <<lib.filename, r.res.err>>)]

\* One turn of the first loop of load_mtls_fn.
LoadLib(acc, lib, resolve) == LibLoaded(acc, lib, reload_with(lib, resolve[lib.filename]))

\* The first loop of load_mtls_fn.
RECURSIVE LoadLibs(_, _, _)
LoadLibs(libs, resolve, acc) ==
    IF libs = <<>> THEN acc
    ELSE LoadLibs(Tail(libs), resolve, LoadLib(acc, Head(libs), resolve))

\* The second loop with a reference bound to the first material loaded,
\* whatever its name.
AssignMaterial_FirstLoaded(g, materials) ==
    IF IsSome(g.material) /\ materials # <<>>
    THEN [g EXCEPT !.material = Some(MaterialMtl(materials[1]))]
    ELSE g

\* The second loop with a reference that finds no material dropped.
AssignMaterial_DropUnresolved(g, materials) ==
    IF IsSome(g.material)
          /\ \E i \in 1..Len(materials) : materials[i].name = MaterialName(Unwrap(g.material))
    THEN [g EXCEPT !.material =
             Some(MaterialMtl(materials[CHOOSE i \in 1..Len(materials) :
                                 materials[i].name = MaterialName(Unwrap(g.material))]))]
    ELSE [g EXCEPT !.material = None]

\* The body of the second loop of load_mtls_fn for one group.
AssignMaterial(g, materials) ==
    IF IsSome(g.material)
          /\ \E i \in 1..Len(materials) : materials[i].name = MaterialName(Unwrap(g.material))
    THEN [g EXCEPT !.material =
             Some(MaterialMtl(materials[CHOOSE i \in 1..Len(materials) :
                                 materials[i].name = MaterialName(Unwrap(g.material))]))]
    ELSE g

\* The second loop of load_mtls_fn and its return value.
AssignAll(data, loaded) ==
    [data |-> [data EXCEPT
                 !.material_libs = loaded.libs,
                 !.objects =
                     [o \in 1..Len(data.objects) |->
                         [data.objects[o] EXCEPT
                            !.groups = [g \in 1..Len(data.objects[o].groups) |->
                                           AssignMaterial(data.objects[o].groups[g],
                                                          loaded.materials)]]]],
     res |-> IF loaded.errs = <<>> THEN Ok(<<>>) ELSE Err(loaded.errs)]

\* Obj::load_mtls_fn: the data afterwards and the result.  `resolve` gives,
\* for a file name, an io::Error or the lines of the file.
load_mtls_fn(data, resolve) ==
    AssignAll(data, LoadLibs(data.material_libs, resolve,
                             [libs |-> <<>>, materials |-> <<>>, errs |-> <<>>]))

(* ------------------------------------------------- the path-based load *)

\* HashMap::insert on the map from names to materials: the entry of the
\* name is set, whatever it held.
insert(materials, m) ==
    [n \in (DOMAIN materials) \cup {m.name} |-> IF n = m.name THEN m ELSE materials[n]]

\* The inner loop of `load`: the materials of one library, in order.
RECURSIVE InsertMaterials(_, _)
InsertMaterials(materials, ms) ==
    IF ms = <<>> THEN materials
    ELSE InsertMaterials(insert(materials, Head(ms)), Tail(ms))

\* The outer loop of `load` over the libraries the OBJ names, in order:
\* Some(map), or None when a file fails to open or to load (the `expect`
\* panics).
RECURSIVE LoadMaterials(_, _, _)
LoadMaterials(libs, resolve, materials) ==
    IF libs = <<>> THEN Some(materials)
    ELSE IF ~reload_with(Head(libs), resolve[Head(libs).filename]).res.ok THEN None
    ELSE LoadMaterials(
             Tail(libs), resolve,
             InsertMaterials(
                 materials,
                 reload_with(Head(libs), resolve[Head(libs).filename]).mtl.materials))

\* The closure given to obj.map: the group with its name looked up.
MapGroup(g, materials) ==
    [g EXCEPT !.material =
        IF IsSome(@) /\ MaterialName(Unwrap(@)) \in DOMAIN materials
        THEN Some(materials[MaterialName(Unwrap(@))])
        ELSE None]

\* obj.map over all groups of all objects.
MapGroups(data, materials) ==
    [data EXCEPT
       !.objects =
           [o \in 1..Len(data.objects) |->
               [data.objects[o] EXCEPT
                  !.groups = [g \in 1..Len(data.objects[o].groups) |->
                                 MapGroup(data.objects[o].groups[g], materials)]]]]

\* `load`: a panic, or the data with each group bound to a material.
load(data, resolve) ==
    IF IsSome(LoadMaterials(data.material_libs, resolve, <<>>))
    THEN [panic |-> FALSE,
          data |-> MapGroups(data, Unwrap(LoadMaterials(data.material_libs, resolve, <<>>)))]
    ELSE [panic |-> TRUE, data |-> data]

(* ------------------------------------------------------------ the writer *)

\* What a writer leaves: the lines written, or a panic.  `checks` says
\* whether the build traps integer overflow (debug) or wraps (release).
Written(lines) == [panic |-> FALSE, lines |-> lines]

Panicked == [panic |-> TRUE, lines |-> <<>>]

Then(a, b) ==
    IF a.panic THEN a
    ELSE IF b.panic THEN b
    ELSE Written(a.lines \o b.lines)

\* idx + 1 on usize: None stands for the overflow panic.
AddOne(n, checks) ==
    IF n + 1 < Pow2W THEN Some(n + 1)
    ELSE IF checks THEN None
    ELSE Some(0)

\* One optional `/idx` part of Display for IndexTuple.
DisplayPart(o, checks) ==
    IF IsSome(o)
    THEN LET v == AddOne(Unwrap(o), checks)
         IN  IF IsSome(v) THEN Some(<<"/">> \o DisplayUsize(Unwrap(v))) ELSE None
    ELSE Some(<<>>)

\* impl Display for IndexTuple: the text, or None for a panic.
DisplayIndexTuple(t, checks) ==
    LET p  == AddOne(t[1], checks)
        tx == DisplayPart(t[2], checks)
        nm == DisplayPart(t[3], checks)
    IN  IF IsSome(p) /\ IsSome(tx) /\ IsSome(nm)
        THEN Some(DisplayUsize(Unwrap(p)) \o Unwrap(tx) \o Unwrap(nm))
        ELSE None

\* impl WriteToBuf for SimplePolygon: the `f` line.
RECURSIVE WritePolygonFrom(_, _, _)
WritePolygonFrom(poly, checks, line) ==
    IF poly = <<>> THEN Written(<<line>>)
    ELSE LET d == DisplayIndexTuple(Head(poly), checks)
         IN  IF IsSome(d)
             THEN WritePolygonFrom(Tail(poly), checks, line \o <<" ">> \o Unwrap(d))
             ELSE Panicked

WritePolygon(poly, checks) == WritePolygonFrom(poly, checks, Kw_f)

RECURSIVE WritePolygons(_, _)
WritePolygons(polys, checks) ==
    IF polys = <<>> THEN Written(<<>>)
    ELSE Then(WritePolygon(Head(polys), checks), WritePolygons(Tail(polys), checks))

\* impl WriteToBuf for Group
WriteGroup(group, checks) ==
    LET g == IF group.index = 0
             THEN <<Kw_g \o <<" ">> \o group.name>> ELSE <<>>
        m == IF IsSome(group.material)
             THEN <<Kw_usemtl \o <<" ">> \o MaterialName(Unwrap(group.material))>>
             ELSE <<>>
    IN  Then(Written(g \o m), WritePolygons(group.polys, checks))

\* The loop of Object::write_to_buf: each group, then the assertion on the
\* group that follows it.
RECURSIVE WriteGroups(_, _)
WriteGroups(groups, checks) ==
    IF groups = <<>> THEN Written(<<>>)
    ELSE LET w == WriteGroup(Head(groups), checks)
             asserted == Len(groups) < 2
                         \/ groups[2].index = 0
                         \/ groups[2].name = groups[1].name
         IN  IF asserted THEN Then(w, WriteGroups(Tail(groups), checks))
             ELSE Then(w, Panicked)

\* impl WriteToBuf for Object
WriteObject(object, checks) ==
    LET o == IF object.name # DEFAULT_OBJECT
             THEN <<Kw_o \o <<" ">> \o object.name>> ELSE <<>>
    IN  Then(Written(o), WriteGroups(object.groups, checks))

RECURSIVE WriteObjects(_, _)
WriteObjects(objects, checks) ==
    IF objects = <<>> THEN Written(<<>>)
    ELSE Then(WriteObject(Head(objects), checks), WriteObjects(Tail(objects), checks))

\* "# Generated by the obj Rust library (https://crates.io/crates/obj)."
HeaderLine ==
    <<"#", " ", "G", "e", "n", "e", "r", "a", "t", "e", "d", " ", "b", "y", " ",
      "t", "h", "e", " ", "o", "b", "j", " ", "R", "u", "s", "t", " ",
      "l", "i", "b", "r", "a", "r", "y", " ",
      "(", "h", "t", "t", "p", "s", ":", "/", "/", "c", "r", "a", "t", "e", "s",
      ".", "i", "o", "/", "c", "r", "a", "t", "e", "s", "/", "o", "b", "j", ")", ".">>

\* A `v` / `vt` / `vn` line: the keyword and the components, space separated.
AttributeLine(kw, value) ==
    kw \o <<" ">> \o JoinWith([i \in 1..Len(value) |-> DisplayF32(value[i])], <<" ">>)

\* ObjData::write_to_buf
write_to_buf(dat, checks) ==
    LET head == <<HeaderLine>>
        v  == [i \in 1..Len(dat.position) |-> AttributeLine(Kw_v, dat.position[i])]
        vt == [i \in 1..Len(dat.texture) |-> AttributeLine(Kw_vt, dat.texture[i])]
        vn == [i \in 1..Len(dat.normal) |-> AttributeLine(Kw_vn, dat.normal[i])]
        libs == [i \in 1..Len(dat.material_libs) |->
                     Kw_mtllib \o <<" ">> \o dat.material_libs[i].filename]
    IN  Then(Then(Written(head \o v \o vt \o vn), WriteObjects(dat.objects, checks)),
             Written(libs))

\* The line Mtl::write_to_buf writes for a field that holds three numbers,
\* one number, or a string; nothing for a field that is None.
WriteVec(kw, v) ==
    IF IsSome(v)
    THEN <<JoinWith(<<kw, DisplayF32(Unwrap(v)[1]), DisplayF32(Unwrap(v)[2]),
                      DisplayF32(Unwrap(v)[3])>>, <<" ">>)>>
    ELSE <<>>

WriteNumber(kw, v) ==
    IF IsSome(v) THEN <<JoinWith(<<kw, DisplayF32(Unwrap(v))>>, <<" ">>)>> ELSE <<>>

WriteString(kw, v) == IF IsSome(v) THEN <<JoinWith(<<kw, Unwrap(v)>>, <<" ">>)>> ELSE <<>>

\* The body of the loop of Mtl::write_to_buf: the lines of one material.
WriteMaterial(m) ==
    <<JoinWith(<<Kw_newmtl, m.name>>, <<" ">>)>>
        \o WriteVec(<<"K", "a">>, m.ka)
        \o WriteVec(<<"K", "d">>, m.kd)
        \o WriteVec(<<"K", "s">>, m.ks)
        \o WriteVec(<<"K", "e">>, m.ke)
        \o WriteNumber(<<"N", "s">>, m.ns)
        \o WriteNumber(<<"N", "s">>, m.ns)
        \o WriteNumber(<<"N", "i">>, m.ni)
        \o WriteNumber(<<"K", "m">>, m.km)
        \o WriteNumber(<<"d">>, m.d)
        \o WriteNumber(<<"T", "r">>, m.tr)
        \o WriteVec(<<"T", "f">>, m.tf)
        \o WriteNumber(<<"i", "l", "l", "u", "m">>, m.illum)
        \o WriteString(<<"m", "a", "p", "_", "K", "a">>, m.map_ka)
        \o WriteString(<<"m", "a", "p", "_", "K", "d">>, m.map_kd)
        \o WriteString(<<"m", "a", "p", "_", "K", "s">>, m.map_ks)
        \o WriteString(<<"m", "a", "p", "_", "d">>, m.map_d)
        \o WriteString(<<"r", "e", "f", "l">>, m.map_refl)
        \o WriteString(<<"b", "u", "m", "p">>, m.map_bump)

\* Mtl::write_to_buf: the lines written for the materials.
RECURSIVE WriteMaterials(_)
WriteMaterials(materials) ==
    IF materials = <<>> THEN <<>>
    ELSE WriteMaterial(Head(materials)) \o WriteMaterials(Tail(materials))

\* The map of tests/round_trip.rs: for each file name, the text written
\* for the library of that name (the last one, where several share it).
WrittenLibs(orig) ==
    [f \in {orig.material_libs[j].filename : j \in 1..Len(orig.material_libs)} |->
        Ok(WriteMaterials(
            orig.material_libs[
                CHOOSE j \in 1..Len(orig.material_libs) :
                    /\ orig.material_libs[j].filename = f
                    /\ \A i \in (j + 1)..Len(orig.material_libs) :
                           orig.material_libs[i].filename # f].materials))]

\* The end of the round trip: what load_mtls_fn left; its unwrap panics on
\* an error.
ReadBackResolved(out) == [panic |-> ~out.res.ok, data |-> out.data]

\* The middle of the round trip: load_mtls_fn on what load_buf returned,
\* with the written libraries; the unwraps panic on an error and on a file
\* name that is not in the map.
ReadBackLoaded(orig, r) ==
    IF ~r.ok THEN [panic |-> TRUE, data |-> ObjDataDefault]
    ELSE IF \E k \in 1..Len(r.val.material_libs) :
                r.val.material_libs[k].filename \notin DOMAIN WrittenLibs(orig)
    THEN [panic |-> TRUE, data |-> ObjDataDefault]
    ELSE ReadBackResolved(load_mtls_fn(r.val, WrittenLibs(orig)))

\* The round trip of tests/round_trip.rs from the text w written for the
\* resolved data.
ReadBack(orig, w) ==
    IF w.panic THEN [panic |-> TRUE, data |-> ObjDataDefault]
    ELSE ReadBackLoaded(orig, load_buf(w.lines))

(* ---------------------------------------------------- fixed-arity polygons *)

\* A conversion that takes the vertices of a quad in reverse.
try_from_Reversed(gs) ==
    IF Len(gs) = 3
    THEN Ok([kind |-> "PolyTri", x |-> gs[1], y |-> gs[2], z |-> gs[3]])
    ELSE IF Len(gs) = 4
    THEN Ok([kind |-> "PolyQuad", x |-> gs[4], y |-> gs[3], z |-> gs[2], w |-> gs[1]])
    ELSE Err([kind |-> "GenMeshWrongNumberOfVertsInPolygon", vert_count |-> Len(gs)])

\* impl TryFrom<SimplePolygon> for Polygon<IndexTuple>
try_from(gs) ==
    IF Len(gs) = 3
    THEN Ok([kind |-> "PolyTri", x |-> gs[1], y |-> gs[2], z |-> gs[3]])
    ELSE IF Len(gs) = 4
    THEN Ok([kind |-> "PolyQuad", x |-> gs[1], y |-> gs[2], z |-> gs[3], w |-> gs[4]])
    ELSE Err([kind |-> "GenMeshWrongNumberOfVertsInPolygon", vert_count |-> Len(gs)])

\* The unwrap of into_genmesh: the value, or a panic.
Unwrapped(r) == IF r.ok THEN [panic |-> FALSE, val |-> r.val] ELSE [panic |-> TRUE]

\* SimplePolygon::into_genmesh
into_genmesh(gs) == Unwrapped(try_from(gs))

(* --------------------------------------------------- the loader of 2014 *)

VertexTypes == {"VertexP", "VertexPT", "VertexPN", "VertexPTN"}

\* Obj::new(), with the tables, maps and index arrays of the four vertex
\* types held by type.
ObjNew ==
    [vertices |-> <<>>, textures |-> <<>>, normals |-> <<>>,
     joined_vertices_map |-> [vt \in VertexTypes |-> <<>>],
     joined_vertices |-> [vt \in VertexTypes |-> <<>>],
     indices |-> [vt \in VertexTypes |-> <<>>],
     objects |-> <<>>]

\* normalize of src/obj.rs, on uint: both casts wrap.
LegacyNormalize(idx, len) ==
    IF idx < 0 THEN (len + idx) % Pow2W ELSE (idx - 1) % Pow2W

\* An interning step that never finds the key: every reference gets a new
\* entry.
Join_AlwaysPush(dat, vt, key) ==
    [dat |-> [dat EXCEPT
                !.joined_vertices_map[vt] =
                    [k \in (DOMAIN @) \cup {key} |->
                        IF k = key THEN Len(dat.joined_vertices[vt]) ELSE @[k]],
                !.joined_vertices[vt] = Append(@, key)],
     res |-> Ok(Len(dat.joined_vertices[vt]))]

\* The match on joined_vertices_map.find(&key): the index of the key, which
\* is added at the end of the table when the map does not hold it.
Join(dat, vt, key) ==
    IF key \in DOMAIN dat.joined_vertices_map[vt]
    THEN [dat |-> dat, res |-> Ok(dat.joined_vertices_map[vt][key])]
    ELSE [dat |-> [dat EXCEPT
                     !.joined_vertices_map[vt] =
                         [k \in (DOMAIN @) \cup {key} |->
                             IF k = key THEN Len(dat.joined_vertices[vt]) ELSE @[k]],
                     !.joined_vertices[vt] = Append(@, key)],
          res |-> Ok(Len(dat.joined_vertices[vt]))]

NotInt(dat, text) == [dat |-> dat, res |-> Err([kind |-> "NotInt", text |-> text])]

parse_group_p(dat, p) ==
    IF FromStrIsize(p) = None THEN NotInt(dat, p)
    ELSE Join(dat, "VertexP", LegacyNormalize(Unwrap(FromStrIsize(p)), Len(dat.vertices)))

parse_group_pt(dat, p, t) ==
    IF FromStrIsize(p) = None THEN NotInt(dat, p)
    ELSE IF FromStrIsize(t) = None THEN NotInt(dat, t)
    ELSE Join(dat, "VertexPT",
              <<LegacyNormalize(Unwrap(FromStrIsize(p)), Len(dat.vertices)),
                LegacyNormalize(Unwrap(FromStrIsize(t)), Len(dat.textures))>>)

parse_group_pn(dat, p, n) ==
    IF FromStrIsize(p) = None THEN NotInt(dat, p)
    ELSE IF FromStrIsize(n) = None THEN NotInt(dat, n)
    ELSE Join(dat, "VertexPN",
              <<LegacyNormalize(Unwrap(FromStrIsize(p)), Len(dat.vertices)),
                LegacyNormalize(Unwrap(FromStrIsize(n)), Len(dat.normals))>>)

parse_group_ptn(dat, p, t, n) ==
    IF FromStrIsize(p) = None THEN NotInt(dat, p)
    ELSE IF FromStrIsize(t) = None THEN NotInt(dat, t)
    ELSE IF FromStrIsize(n) = None THEN NotInt(dat, n)
    ELSE Join(dat, "VertexPTN",
              <<LegacyNormalize(Unwrap(FromStrIsize(p)), Len(dat.vertices)),
                LegacyNormalize(Unwrap(FromStrIsize(t)), Len(dat.textures)),
                LegacyNormalize(Unwrap(FromStrIsize(n)), Len(dat.normals))>>)

\* The vertex type parse_group of src/obj.rs reads from the pieces between
\* the slashes of a field.
TypeOf(parts) ==
    IF Len(parts) = 1 THEN "VertexP"
    ELSE IF Len(parts) = 2 THEN "VertexPT"
    ELSE IF parts[2] = <<>> THEN "VertexPN"
    ELSE "VertexPTN"

Typed(vt, r) == [dat |-> r.dat, res |-> IF r.res.ok THEN Ok(<<vt, r.res.val>>) ELSE r.res]

\* parse_group of src/obj.rs on the pieces of the field.
LegacyParseParts(dat, parts) ==
    CASE TypeOf(parts) = "VertexP" -> Typed("VertexP", parse_group_p(dat, parts[1]))
      [] TypeOf(parts) = "VertexPT" ->
             Typed("VertexPT", parse_group_pt(dat, parts[1], parts[2]))
      [] TypeOf(parts) = "VertexPN" ->
             Typed("VertexPN", parse_group_pn(dat, parts[1], parts[3]))
      [] OTHER -> Typed("VertexPTN", parse_group_ptn(dat, parts[1], parts[2], parts[3]))

\* parse_group of src/obj.rs.
LegacyParseGroup(dat, group) == LegacyParseParts(dat, SplitSlash(group))

\* The calls of parse_group at the head of parse_triangle and parse_quad,
\* one after the other on the same Obj: the Obj afterwards and the results.
RECURSIVE ParseGroups(_, _, _)
RECURSIVE ParseGroupsThen(_, _, _)
ParseGroups(dat, groups, res) ==
    IF groups = <<>> THEN [dat |-> dat, res |-> res]
    ELSE ParseGroupsThen(LegacyParseGroup(dat, Head(groups)), Tail(groups), res)

ParseGroupsThen(r, groups, res) == ParseGroups(r.dat, groups, Append(res, r.res))

\* The match of parse_triangle and parse_quad on the results: the joined
\* indices are pushed in `order`, or the first error is returned.
PushFace(parsed, order) ==
    IF \A k \in DOMAIN parsed.res : parsed.res[k].ok
    THEN IF \A k \in DOMAIN parsed.res : parsed.res[k].val[1] = parsed.res[1].val[1]
         THEN [dat |-> [parsed.dat EXCEPT
                          !.indices[parsed.res[1].val[1]] =
                              @ \o [k \in DOMAIN order |-> parsed.res[order[k]].val[2]]],
               res |-> Ok(<<parsed.res[1].val[1],
                            Len(parsed.dat.indices[parsed.res[1].val[1]]),
                            Len(order)>>)]
         ELSE [dat |-> parsed.dat, res |-> Err([kind |-> "GroupTypeDoesNotMatch"])]
    ELSE [dat |-> parsed.dat,
          res |-> parsed.res[CHOOSE k \in DOMAIN parsed.res :
                                 /\ ~parsed.res[k].ok
                                 /\ \A j \in 1..(k - 1) : parsed.res[j].ok]]

parse_triangle(dat, g0, g1, g2) ==
    PushFace(ParseGroups(dat, <<g0, g1, g2>>, <<>>), <<1, 2, 3>>)

parse_quad(dat, g0, g1, g2, g3) ==
    PushFace(ParseGroups(dat, <<g0, g1, g2, g3>>, <<>>), <<1, 2, 3, 3, 4, 1>>)

\* parse_face of src/obj.rs on the first four words after `f`: a result, or
\* the failure "Unsupported".
LegacyParseFace(dat, words) ==
    IF Len(words) < 3 THEN [dat |-> dat, res |-> Err([kind |-> "Unsupported"]), fail |-> TRUE]
    ELSE IF Len(words) = 3
    THEN [fail |-> FALSE] @@ parse_triangle(dat, words[1], words[2], words[3])
    ELSE [fail |-> FALSE] @@ parse_quad(dat, words[1], words[2], words[3], words[4])

\* The locals of Obj::load of src/obj.rs at the head of the loop.
LoaderStart == [dat |-> ObjNew, group |-> None, status |-> "reading", failure |-> None]

\* fail! and a failed assert!: the locals are dropped.
Fail(kind) == [LoaderStart EXCEPT !.status = "failed", !.failure = Some(kind)]

\* The (name, material, start, len, vertex type) of a group.
LegacyGroup(name, mat, start, len, vt) ==
    [name |-> name, mat |-> mat, start |-> start, len |-> len, vt |-> vt]

\* parse_vertex, parse_texture and parse_normal: the numbers of the first
\* `count` words, or None where a word is missing or is no number.
ParseNumbers(words, count) ==
    IF Len(words) >= count /\ \A k \in 1..count : IsSome(FromStrF32(words[k]))
    THEN Some([k \in 1..count |-> Unwrap(FromStrF32(words[k]))])
    ELSE None

\* Some("v")
LegacyBranchV(st, words) ==
    IF IsSome(ParseNumbers(Tail(words), 3))
    THEN [st EXCEPT !.dat.vertices = Append(@, Unwrap(ParseNumbers(Tail(words), 3)))]
    ELSE Fail("CouldNotParseLine")

\* Some("vt")
LegacyBranchVt(st, words) ==
    IF IsSome(ParseNumbers(Tail(words), 2))
    THEN [st EXCEPT !.dat.textures = Append(@, Unwrap(ParseNumbers(Tail(words), 2)))]
    ELSE Fail("CouldNotParseLine")

\* Some("vn")
LegacyBranchVn(st, words) ==
    IF IsSome(ParseNumbers(Tail(words), 3))
    THEN [st EXCEPT !.dat.normals = Append(@, Unwrap(ParseNumbers(Tail(words), 3)))]
    ELSE Fail("CouldNotParseLine")

\* The match on `group` in the `f` branch, for a face of that vertex type
\* that starts at `start` and has `size` indices.
FaceGroup(st, dat, vertex_type, start, size) ==
    IF st.group = None
    THEN [st EXCEPT !.dat = dat,
                    !.group = Some(LegacyGroup(DEFAULT_OBJECT, None, start, size, None))]
    ELSE IF Unwrap(st.group).start = 0 /\ Unwrap(st.group).len = 0
    THEN [st EXCEPT !.dat = dat,
                    !.group = Some([Unwrap(st.group) EXCEPT
                                      !.start = start, !.len = size,
                                      !.vt = Some(vertex_type)])]
    ELSE IF Unwrap(st.group).vt # Some(vertex_type)
    THEN Fail("AssertionFailed")
    ELSE [st EXCEPT !.dat = dat,
                    !.group = Some([Unwrap(st.group) EXCEPT
                                      !.len = @ + size, !.vt = Some(vertex_type)])]

FaceParsed(st, r) ==
    IF r.res.ok THEN FaceGroup(st, r.dat, r.res.val[1], r.res.val[2], r.res.val[3])
    ELSE Fail("CouldNotParseLine")

\* Some("f")
LegacyBranchF(st, words) ==
    FaceParsed(st, LegacyParseFace(st.dat,
                                   SubSeq(words, 2, IF Len(words) < 5 THEN Len(words) ELSE 5)))

\* Some("o") | Some("g")
LegacyBranchOG(st, words) ==
    [st EXCEPT
       !.dat.objects = @ \o st.group,
       !.group = IF Len(words) > 1
                 THEN Some(LegacyGroup(words[2], None, 0, 0, Some("VertexP")))
                 ELSE None]

\* Some("usemtl")
LegacyBranchUsemtl(st, words) ==
    IF IsSome(st.group)
    THEN [st EXCEPT !.group = Some([Unwrap(st.group) EXCEPT !.mat = Nth(words, 2)])]
    ELSE st

\* After the loop: the open group is pushed and Some(dat) is returned.
LegacyFinish(st) ==
    [st EXCEPT !.dat.objects = @ \o st.group, !.group = None, !.status = "done"]

(* ------------------------------------------------------------ the inputs *)

\* A line made of words separated by single spaces.
Sp(words) == JoinWith(words, <<" ">>)

\* An `f` line with three fields.
Face(a, b, c) == Sp(<<Kw_f, a, b, c>>)

N0 == <<"0">>

N1 == <<"1">>

N2 == <<"2">>

N3 == <<"3">>

M1 == <<"-", "1">>

M2 == <<"-", "2">>

M3 == <<"-", "3">>

M4 == <<"-", "4">>

NameA == <<"A">>

NameB == <<"B">>

NameX == <<"X">>

GroupA == <<"a">>

GroupB == <<"b">>

\* Inputs of the class "fields": attribute lines and face lines whose
\* fields take every shape of `p[/t][/n]`, well formed or not.
FieldsV == {Sp(<<Kw_v, N0, N0, N0>>), Sp(<<Kw_v, N1, <<"x">>, N0>>), Sp(<<Kw_v, N0, N0>>)}

FieldsVt == {Sp(<<Kw_vt, N0, N1>>), Sp(<<Kw_vt, N0>>)}

FieldsVn == {Sp(<<Kw_vn, N0, N0, N1>>), Sp(<<Kw_vn, <<"y">>, N0, N1>>)}

FieldsF ==
    { Face(N1, N1, N1),
      Face(N2, N1, N1),
      Face(M1, M1, M1),
      Face(M2, M1, M1),
      Face(<<"1", "/", "1">>, <<"1", "/", "1">>, <<"1", "/", "1">>),
      Face(<<"1", "/", "/", "1">>, <<"1", "/", "/", "1">>, <<"1", "/", "/", "1">>),
      Face(<<"1", "/", "1", "/", "1">>, <<"1", "/", "1", "/", "1">>, <<"1", "/", "1", "/", "1">>),
      Face(<<"1", "/", "-", "1", "/", "-", "1">>, N1, N1),
      Face(N0, N1, N1),
      Face(N1, N0, <<"x">>),
      Face(<<"x">>, N0, N1),
      Face(<<"/", "1">>, N1, N1),
      Face(<<"1", "/", "0", "/", "1">>, N1, N1),
      Face(<<"1", "/", "1", "/", "0">>, N1, N1),
      Face(<<"1", "/", "x", "/", "1">>, N1, N1),
      Face(<<"1", "/", "1", "/", "y">>, N1, N1),
      Sp(<<Kw_f, N1, N1>>),
      Kw_f }

\* Inputs of the class "materials": faces batched by material, with the
\* lines that close a group or an object.
MaterialsF == {Face(N1, N1, N1)}

MaterialsO == {Sp(<<Kw_o, NameX>>)}

MaterialsG == {Kw_g}

MaterialsUsemtl == {Sp(<<Kw_usemtl, NameA>>), Sp(<<Kw_usemtl, NameB>>)}

\* Inputs of the class "groups": named groups, faces, one material.
GroupsF == {Face(N1, N1, N1)}

GroupsO == {Sp(<<Kw_o, NameX>>)}

GroupsG == {Sp(<<Kw_g, GroupA>>), Sp(<<Kw_g, GroupB>>)}

GroupsUsemtl == {Sp(<<Kw_usemtl, NameA>>)}

\* Inputs of the class "misc": the other commands and the odd spellings.
MiscV == {Sp(<<Kw_v, N0, N0, N0>>)}

MiscF == {Face(N1, N1, N1)}

MiscO ==
    { Kw_o,
      Kw_o \o <<" ", " ">>,
      <<" ">> \o Sp(<<Kw_o, NameX>>),
      Sp(<<Kw_o, DEFAULT_OBJECT>>) }

MiscG ==
    { Sp(<<Kw_g, GroupA, GroupB>>),
      Kw_g \o <<" ", " ">>,
      <<" ", " ">> \o Sp(<<Kw_g, GroupA>>) }

MiscMtllib ==
    { Kw_mtllib,
      Sp(<<Kw_mtllib, <<"m">>>>),
      Kw_mtllib \o <<" ", " ">> \o Sp(<<<<"m">>, <<"n">>>>) }

MiscUsemtl == {Kw_usemtl, Sp(<<Kw_usemtl, NameA>>)}

MiscS == {Sp(<<Kw_s, N1>>)}

MiscL == {Sp(<<Kw_l, N1, N2>>)}

MiscOther == {Sp(<<<<"#">>, <<"c">>>>), <<"#", "c">>, Sp(<<<<"a", "d", "j", "f">>, N0, N1>>)}

MiscBlank == {<<>>, <<" ">>}

\* Inputs of the class "relative": vertices and faces with absolute and
\* relative indices.
RelativeV == {Sp(<<Kw_v, N0, N0, N0>>)}

RelativeF == {Sp(<<Kw_f, M4, M3, M2, M1>>), Face(N1, N2, N3), Face(M1, N1, M3)}

\* Inputs of the class "wellformed": what a writer of OBJ files emits, with
\* the four legal shapes of a face field.
WellFormedV == {Sp(<<Kw_v, N0, N0, N0>>), Sp(<<Kw_v, N1, N2, N3>>)}

WellFormedVt == {Sp(<<Kw_vt, N0, N1>>)}

WellFormedVn == {Sp(<<Kw_vn, N0, N0, N1>>)}

WellFormedF ==
    { Face(N1, N1, N1),
      Face(<<"1", "/", "1">>, <<"1", "/", "1">>, <<"1", "/", "1">>),
      Face(<<"1", "/", "/", "1">>, <<"1", "/", "/", "1">>, <<"1", "/", "/", "1">>),
      Face(<<"1", "/", "1", "/", "1">>, <<"1", "/", "1", "/", "1">>, <<"1", "/", "1", "/", "1">>) }

WellFormedO == {Sp(<<Kw_o, NameX>>)}

WellFormedG == {Sp(<<Kw_g, GroupA>>)}

WellFormedMtllib == {Sp(<<Kw_mtllib, <<"m">>>>)}

WellFormedUsemtl == {Sp(<<Kw_usemtl, NameA>>)}

\* Inputs of the class "libs": two libraries, two materials and a group
\* without one.
FileP == <<"p">>

FileQ == <<"q">>

LibsMtllib == {Sp(<<Kw_mtllib, FileP>>), Sp(<<Kw_mtllib, FileQ>>)}

LibsUsemtl == {Sp(<<Kw_usemtl, NameA>>), Sp(<<Kw_usemtl, NameB>>)}

LibsG == {Sp(<<Kw_g, GroupA>>)}

\* What the files may hold: each file marks its materials with its own Ns
\* value, so that a definition tells which file it came from.
NewmtlLine(name) == Sp(<<Kw_newmtl, name>>)

NsLine(filename) == Sp(<<<<"N", "s">>, IF filename = FileP THEN N1 ELSE N2>>)

Bogus == <<"b", "o", "g", "u", "s">>

LibBuffers(filename) ==
    { <<>>,
      <<NewmtlLine(NameA), NsLine(filename)>>,
      <<NewmtlLine(NameB), NsLine(filename)>>,
      <<NewmtlLine(NameA), NsLine(filename), NewmtlLine(NameB)>>,
      <<NewmtlLine(NameA), NsLine(filename), NewmtlLine(NameA)>>,
      <<NewmtlLine(NameA), NewmtlLine(NameB), Bogus>>,
      <<NewmtlLine(NameA), NsLine(filename), Kw_newmtl>>,
      <<NewmtlLine(NameB), <<"N", "s", " ", "x">>>>,
      <<NsLine(filename), Bogus>> }

\* What resolve may return for a file: an io::Error or the file's lines.
Resolved(filename) == {Err("NotFound")} \cup {Ok(b) : b \in LibBuffers(filename)}

\* Inputs of the class "roundtrip": a library, a material, and faces with
\* and without normals.
RoundTripV == {Sp(<<Kw_v, N0, N0, N0>>)}

RoundTripVn == {Sp(<<Kw_vn, N0, N0, N1>>)}

RoundTripF ==
    { Face(N1, N1, N1),
      Face(<<"1", "/", "/", "1">>, <<"1", "/", "/", "1">>, <<"1", "/", "/", "1">>) }

RoundTripMtllib == {Sp(<<Kw_mtllib, FileP>>)}

RoundTripUsemtl == {Sp(<<Kw_usemtl, NameA>>)}

\* Inputs of the class "polygon": faces of no, one, two, three, four and
\* five vertices.
PolygonF ==
    { Kw_f,
      Sp(<<Kw_f, N1>>),
      Sp(<<Kw_f, N1, N2>>),
      Face(N1, N2, N3),
      Face(<<"3", "/", "1", "/", "2">>, <<"2", "/", "2", "/", "1">>, <<"1", "/", "3", "/", "3">>),
      Sp(<<Kw_f, N1, N2, N3, <<"4">>>>),
      Sp(<<Kw_f, <<"4">>, N3, N2, N1>>),
      Sp(<<Kw_f, N1, N2, N3, <<"4">>, <<"5">>>>) }

\* Inputs of the class "mtl", the lines of an MTL buffer: materials with and
\* without a name, coefficients that parse and that do not, a map, a
\* comment, a blank line and two instructions Mtl::reload does not know.
MtlLines ==
    { NewmtlLine(NameA),
      Kw_newmtl,
      Sp(<<<<"N", "s">>, N1>>),
      Sp(<<<<"N", "s">>, N2>>),
      Sp(<<<<"N", "s">>, <<"x">>>>),
      Sp(<<<<"K", "a">>, N0, N1, N2>>),
      Sp(<<<<"K", "a">>, N0, N1>>),
      <<"i", "l", "l", "u", "m">>,
      <<"m", "a", "p", "_", "K", "d", " ", "t", " ", " ", "u">>,
      <<"m", "a", "p", "_", "K", "e", " ", "t">>,
      <<"#", " ", "c">>,
      <<>>,
      Bogus }

\* What a previous load may have left in the Mtl.
MtlBefore == {<<>>, <<MaterialNew(NameX)>>}

\* Inputs of the class "objects": objects with and without a name, a named
\* group, a face, and the lines that may come before the first object.
ObjectsV == {Sp(<<Kw_v, N0, N0, N0>>)}

ObjectsF == {Face(N1, N1, N1)}

ObjectsO == {Sp(<<Kw_o, NameX>>), Kw_o}

ObjectsG == {Sp(<<Kw_g, GroupA>>)}

ObjectsOther == {Sp(<<<<"#">>, <<"c">>>>)}

ObjectsBlank == {<<>>}

\* Inputs of the class "legacy": attribute lines, faces of every layout,
\* with a repeated and a relative reference, a quad, a mixed face, a short
\* face and a face with a field that is no number, and group lines.
LegacyV == {Sp(<<Kw_v, N0, N0, N0>>)}

LegacyVt == {Sp(<<Kw_vt, N0, N0>>)}

LegacyVn == {Sp(<<Kw_vn, N0, N0, N1>>)}

LegacyF ==
    { Face(N1, N1, N1),
      Face(N1, M1, N2),
      Face(<<"1", "/", "1">>, <<"2", "/", "1">>, <<"1", "/", "1">>),
      Face(<<"1", "/", "/", "1">>, <<"1", "/", "/", "2">>, <<"1", "/", "/", "1">>),
      Face(<<"1", "/", "1", "/", "1">>, <<"1", "/", "1", "/", "1">>, <<"2", "/", "1", "/", "1">>),
      Sp(<<Kw_f, N1, N2, N2, N1>>),
      Face(N1, <<"1", "/", "1">>, N1),
      Sp(<<Kw_f, N1, N1>>),
      Face(N1, <<"x">>, N1) }

LegacyOG == {Sp(<<Kw_g, NameX>>), Sp(<<Kw_o, NameX>>), Kw_g}

LegacyUsemtl == {Sp(<<Kw_usemtl, NameA>>)}

Classes ==
    {"fields", "materials", "groups", "misc", "relative", "wellformed", "objects", "libs",
     "mtl", "roundtrip", "polygon", "legacy"}

MaxLines(class) ==
    CASE class = "fields" -> MaxLinesFields
      [] class = "materials" -> MaxLinesMaterials
      [] class = "groups" -> MaxLinesGroups
      [] class = "misc" -> MaxLinesMisc
      [] class = "relative" -> MaxLinesRelative
      [] class = "wellformed" -> MaxLinesWellFormed
      [] class = "objects" -> MaxLinesObjects
      [] class = "libs" -> MaxLinesLibs
      [] class = "roundtrip" -> MaxLinesRoundTrip
      [] class = "polygon" -> MaxLinesPolygon
      [] class = "legacy" -> MaxLinesLegacy
      [] OTHER -> 0

VLines(class) ==
    CASE class = "fields" -> FieldsV
      [] class = "misc" -> MiscV
      [] class = "relative" -> RelativeV
      [] class = "wellformed" -> WellFormedV
      [] class = "objects" -> ObjectsV
      [] class = "roundtrip" -> RoundTripV
      [] OTHER -> {}

VtLines(class) ==
    CASE class = "fields" -> FieldsVt
      [] class = "wellformed" -> WellFormedVt
      [] OTHER -> {}

VnLines(class) ==
    CASE class = "fields" -> FieldsVn
      [] class = "wellformed" -> WellFormedVn
      [] class = "roundtrip" -> RoundTripVn
      [] OTHER -> {}

FLines(class) ==
    CASE class = "fields" -> FieldsF
      [] class = "materials" -> MaterialsF
      [] class = "groups" -> GroupsF
      [] class = "misc" -> MiscF
      [] class = "relative" -> RelativeF
      [] class = "wellformed" -> WellFormedF
      [] class = "objects" -> ObjectsF
      [] class = "roundtrip" -> RoundTripF
      [] class = "polygon" -> PolygonF
      [] OTHER -> {}

OLines(class) ==
    CASE class = "materials" -> MaterialsO
      [] class = "groups" -> GroupsO
      [] class = "misc" -> MiscO
      [] class = "wellformed" -> WellFormedO
      [] class = "objects" -> ObjectsO
      [] OTHER -> {}

GLines(class) ==
    CASE class = "materials" -> MaterialsG
      [] class = "groups" -> GroupsG
      [] class = "misc" -> MiscG
      [] class = "wellformed" -> WellFormedG
      [] class = "objects" -> ObjectsG
      [] class = "libs" -> LibsG
      [] OTHER -> {}

MtllibLines(class) ==
    CASE class = "misc" -> MiscMtllib
      [] class = "wellformed" -> WellFormedMtllib
      [] class = "libs" -> LibsMtllib
      [] class = "roundtrip" -> RoundTripMtllib
      [] OTHER -> {}

UsemtlLines(class) ==
    CASE class = "materials" -> MaterialsUsemtl
      [] class = "groups" -> GroupsUsemtl
      [] class = "misc" -> MiscUsemtl
      [] class = "wellformed" -> WellFormedUsemtl
      [] class = "libs" -> LibsUsemtl
      [] class = "roundtrip" -> RoundTripUsemtl
      [] OTHER -> {}

SLines(class) == IF class = "misc" THEN MiscS ELSE {}

LLines(class) == IF class = "misc" THEN MiscL ELSE {}

OtherLines(class) ==
    CASE class = "misc" -> MiscOther
      [] class = "objects" -> ObjectsOther
      [] OTHER -> {}

BlankLines(class) ==
    CASE class = "misc" -> MiscBlank
      [] class = "objects" -> ObjectsBlank
      [] OTHER -> {}

(* ------------------------------------------------------- the state machine *)

VARIABLES
    class,      \* which class of input is being read (fixed per run)
    strict,     \* LoadConfig.strict
    stream,     \* the lines read so far, the failing one included
    idx,        \* the line number of the next line
    dat,        \* load_buf_with_config: dat
    object,     \* load_buf_with_config: object
    group,      \* load_buf_with_config: group
    ret,        \* None while reading, then Some(Result<ObjData, ObjError>)
    written,    \* None, then Some(what write_to_buf left of the parsed data)
    reloaded,   \* None, then Some(load_buf of the written text)
    mtls,       \* None, then Some(what resolve returned and load_mtls_fn left)
    buffer,     \* the lines of the MTL buffer handed to Mtl::reload
    lib,        \* None, then Some(the Mtl before Mtl::reload and what it left)
    back,       \* None, then Some(Mtl::reload of what Mtl::write_to_buf wrote)
    round,      \* None, then Some(the resolved data written and read back)
    genmesh,    \* None, then Some(a parsed polygon and its conversion)
    again,      \* None, then Some(what a second load_mtls_fn left)
    legacy,     \* None, then Some(what `load` of lib.rs returned)
    loader      \* Obj::load of src/obj.rs: dat, group and how far it got

vars ==
    <<class, strict, stream, idx, dat, object, group, ret, written, reloaded, mtls,
      buffer, lib, back, round, genmesh, again, legacy, loader>>

Cur == [dat |-> dat, object |-> object, group |-> group]

Init ==
    /\ class \in Classes
    /\ strict \in (IF class = "misc" THEN BOOLEAN ELSE {TRUE})
    /\ stream = <<>>
    /\ idx = 0
    /\ dat = ParserStart.dat
    /\ object = ParserStart.object
    /\ group = ParserStart.group
    /\ ret = None
    /\ written = None
    /\ reloaded = None
    /\ mtls = None
    /\ buffer = <<>>
    /\ lib = None
    /\ back = None
    /\ round = None
    /\ genmesh = None
    /\ again = None
    /\ legacy = None
    /\ loader = LoaderStart

\* One turn of the loop on `line`, whose branch gave r: the locals change,
\* or `?` returns the error and the locals are dropped.
Take(line, r) ==
    /\ ret = None
    /\ Len(stream) < MaxLines(class)
    /\ stream' = Append(stream, line)
    /\ idx' = idx + 1
    /\ IF r.ok
       THEN /\ dat' = r.val.dat
            /\ object' = r.val.object
            /\ group' = r.val.group
            /\ ret' = None
       ELSE /\ dat' = ParserStart.dat
            /\ object' = ParserStart.object
            /\ group' = ParserStart.group
            /\ ret' = Some(r)
    /\ UNCHANGED <<class, strict, written, reloaded, mtls, buffer, lib, back, round,
                   genmesh, again, legacy, loader>>

LineV == \E line \in VLines(class) : Take(line, BranchV(Cur, SplitWhitespace(line), idx))

LineVt == \E line \in VtLines(class) : Take(line, BranchVt(Cur, SplitWhitespace(line), idx))

LineVn == \E line \in VnLines(class) : Take(line, BranchVn(Cur, SplitWhitespace(line), idx))

FaceCount == Cardinality({i \in 1..Len(stream) : First(stream[i]) = Some(Kw_f)})

LineF ==
    /\ class = "relative" => FaceCount < MaxFacesRelative
    /\ \E line \in FLines(class) : Take(line, BranchF(Cur, SplitWhitespace(line), idx))

LineO == \E line \in OLines(class) : Take(line, BranchO(Cur, line))

LineG == \E line \in GLines(class) : Take(line, BranchG(Cur, line))

LineMtllib ==
    \E line \in MtllibLines(class) : Take(line, BranchMtllib(Cur, SplitWhitespace(line), idx))

LineUsemtl ==
    \E line \in UsemtlLines(class) : Take(line, BranchUsemtl(Cur, SplitWhitespace(line)))

LineS == \E line \in SLines(class) : Take(line, Ok(Cur))

LineL == \E line \in LLines(class) : Take(line, Ok(Cur))

LineOther ==
    \E line \in OtherLines(class) : Take(line, BranchOther(Cur, SplitWhitespace(line), idx, strict))

LineBlank == \E line \in BlankLines(class) : Take(line, Ok(Cur))

\* The input ends: the parse returns Ok(dat).
EndOfInput ==
    /\ ret = None
    /\ ret' = Some(Ok(Finish(Cur)))
    /\ dat' = ParserStart.dat
    /\ object' = ParserStart.object
    /\ group' = ParserStart.group
    /\ UNCHANGED <<class, strict, stream, idx, written, reloaded,
                   mtls, buffer, lib, back, round, genmesh, again, legacy, loader>>

Parsed == IsSome(ret) /\ Unwrap(ret).ok

Failed == IsSome(ret) /\ ~Unwrap(ret).ok

\* The parsed ObjData (only where Parsed).
Data == Unwrap(ret).val

\* The returned error (only where Failed).
Error == Unwrap(ret).err

\* write_to_buf on the parsed data, in a debug or a release build.
WriteToBuf ==
    /\ Parsed
    /\ written = None
    /\ \E checks \in BOOLEAN : written' = Some(write_to_buf(Data, checks))
    /\ UNCHANGED <<class, strict, stream, idx, dat, object, group, ret, reloaded,
                   mtls, buffer, lib, back, round, genmesh, again, legacy, loader>>

\* load_buf on the text that was written.
Reload ==
    /\ IsSome(written)
    /\ ~Unwrap(written).panic
    /\ reloaded = None
    /\ reloaded' = Some(load_buf(Unwrap(written).lines))
    /\ UNCHANGED <<class, strict, stream, idx, dat, object, group, ret, written,
                   mtls, buffer, lib, back, round, genmesh, again, legacy, loader>>

\* The files named by the libraries of the parsed data.
FileNames == {Data.material_libs[k].filename : k \in 1..Len(Data.material_libs)}

\* load_mtls_fn on the Obj made of the parsed data, with a resolve that
\* answers each file name with an error or with lines.
LoadMtls ==
    /\ class \in {"libs", "roundtrip"}
    /\ Parsed
    /\ mtls = None
    /\ \E p \in (IF FileP \in FileNames THEN Resolved(FileP) ELSE {Err("NotFound")}) :
        \E q \in (IF FileQ \in FileNames THEN Resolved(FileQ) ELSE {Err("NotFound")}) :
            LET resolve == [f \in {FileP, FileQ} |-> IF f = FileP THEN p ELSE q]
            IN  mtls' = Some([resolve |-> resolve, out |-> load_mtls_fn(Data, resolve)])
    /\ UNCHANGED <<class, strict, stream, idx, dat, object, group, ret, written, reloaded,
                   buffer, lib, back, round, genmesh, again, legacy, loader>>

\* `load` of lib.rs on the parsed data, with the files that resolve answered
\* load_mtls_fn with.
Load ==
    /\ class = "libs"
    /\ IsSome(mtls)
    /\ legacy = None
    /\ legacy' = Some(load(Data, Unwrap(mtls).resolve))
    /\ UNCHANGED <<class, strict, stream, idx, dat, object, group, ret, written, reloaded,
                   mtls, buffer, lib, back, round, genmesh, again, loader>>

\* load_mtls_fn once more, on the data the first call left and with a
\* resolve that answers as before.
LoadMtlsAgain ==
    /\ class = "libs"
    /\ IsSome(mtls)
    /\ again = None
    /\ again' = Some(load_mtls_fn(Unwrap(mtls).out.data, Unwrap(mtls).resolve))
    /\ UNCHANGED <<class, strict, stream, idx, dat, object, group, ret, written, reloaded,
                   mtls, buffer, lib, back, round, genmesh, legacy, loader>>

\* One more line in the MTL buffer.
MtlLine ==
    /\ class = "mtl"
    /\ lib = None
    /\ Len(buffer) < MaxLinesMtl
    /\ \E line \in MtlLines : buffer' = Append(buffer, line)
    /\ UNCHANGED <<class, strict, stream, idx, dat, object, group, ret, written, reloaded,
                   mtls, lib, back, round, genmesh, again, legacy, loader>>

\* Mtl::reload of the buffer, on an Mtl that is new or was loaded before.
MtlReload ==
    /\ class = "mtl"
    /\ lib = None
    /\ \E before \in MtlBefore :
           lib' = Some([before |-> before,
                        out |-> reload([filename |-> FileP, materials |-> before], buffer)])
    /\ UNCHANGED <<class, strict, stream, idx, dat, object, group, ret, written, reloaded,
                   mtls, buffer, back, round, genmesh, again, legacy, loader>>

\* Mtl::write_to_buf on the library that was loaded, and Mtl::reload of the
\* text into a new library.
MtlWriteAndReload ==
    /\ class = "mtl"
    /\ IsSome(lib)
    /\ Unwrap(lib).out.res.ok
    /\ back = None
    /\ back' = Some(reload(MtlNew(FileP), WriteMaterials(Unwrap(lib).out.mtl.materials)))
    /\ UNCHANGED <<class, strict, stream, idx, dat, object, group, ret, written, reloaded,
                   mtls, buffer, lib, round, genmesh, again, legacy, loader>>

\* round_trip_sponza_with_mtl on the data whose libraries were loaded: the
\* data and each library are written and read back.
RoundTripWithMtl ==
    /\ class = "roundtrip"
    /\ IsSome(mtls)
    /\ Unwrap(mtls).out.res.ok
    /\ round = None
    /\ \E checks \in BOOLEAN :
           round' = Some(ReadBack(Unwrap(mtls).out.data,
                                  write_to_buf(Unwrap(mtls).out.data, checks)))
    /\ UNCHANGED <<class, strict, stream, idx, dat, object, group, ret, written, reloaded,
                   mtls, buffer, lib, back, genmesh, again, legacy, loader>>

\* The polygons of the parsed data, in order.
ParsedPolys ==
    LET RECURSIVE Flat(_)
        Flat(seqs) == IF seqs = <<>> THEN <<>> ELSE Head(seqs) \o Flat(Tail(seqs))
    IN  Flat([o \in 1..Len(Data.objects) |->
                 Flat([g \in 1..Len(Data.objects[o].groups) |->
                          Data.objects[o].groups[g].polys])])

\* try_from on a polygon of the parsed data.
TryFrom ==
    /\ class = "polygon"
    /\ Parsed
    /\ genmesh = None
    /\ \E k \in 1..Len(ParsedPolys) :
           genmesh' = Some([poly |-> ParsedPolys[k], by |-> "try_from",
                            out |-> try_from(ParsedPolys[k])])
    /\ UNCHANGED <<class, strict, stream, idx, dat, object, group, ret, written, reloaded,
                   mtls, buffer, lib, back, round, again, legacy, loader>>

\* into_genmesh on a polygon of the parsed data.
IntoGenmesh ==
    /\ class = "polygon"
    /\ Parsed
    /\ genmesh = None
    /\ \E k \in 1..Len(ParsedPolys) :
           genmesh' = Some([poly |-> ParsedPolys[k], by |-> "into_genmesh",
                            out |-> into_genmesh(ParsedPolys[k])])
    /\ UNCHANGED <<class, strict, stream, idx, dat, object, group, ret, written, reloaded,
                   mtls, buffer, lib, back, round, again, legacy, loader>>

\* One turn of the loop of Obj::load of src/obj.rs on `line`, which leaves st.
LegacyTake(line, st) ==
    /\ class = "legacy"
    /\ loader.status = "reading"
    /\ Len(stream) < MaxLines(class)
    /\ stream' = Append(stream, line)
    /\ idx' = idx + 1
    /\ loader' = st
    /\ UNCHANGED <<class, strict, dat, object, group, ret, written, reloaded, mtls,
                   buffer, lib, back, round, genmesh, again, legacy>>

LegacyLineV ==
    \E line \in LegacyV : LegacyTake(line, LegacyBranchV(loader, SplitWhitespace(line)))

LegacyLineVt ==
    \E line \in LegacyVt : LegacyTake(line, LegacyBranchVt(loader, SplitWhitespace(line)))

LegacyLineVn ==
    \E line \in LegacyVn : LegacyTake(line, LegacyBranchVn(loader, SplitWhitespace(line)))

LegacyLineF ==
    \E line \in LegacyF : LegacyTake(line, LegacyBranchF(loader, SplitWhitespace(line)))

LegacyLineOG ==
    \E line \in LegacyOG : LegacyTake(line, LegacyBranchOG(loader, SplitWhitespace(line)))

LegacyLineUsemtl ==
    \E line \in LegacyUsemtl :
        LegacyTake(line, LegacyBranchUsemtl(loader, SplitWhitespace(line)))

LegacyEndOfInput ==
    /\ class = "legacy"
    /\ loader.status = "reading"
    /\ loader' = LegacyFinish(loader)
    /\ UNCHANGED <<class, strict, stream, idx, dat, object, group, ret, written, reloaded,
                   mtls, buffer, lib, back, round, genmesh, again, legacy>>

Next ==
    \/ LineV
    \/ LineVt
    \/ LineVn
    \/ LineF
    \/ LineO
    \/ LineG
    \/ LineMtllib
    \/ LineUsemtl
    \/ LineS
    \/ LineL
    \/ LineOther
    \/ LineBlank
    \/ EndOfInput
    \/ WriteToBuf
    \/ Reload
    \/ LoadMtls
    \/ MtlLine
    \/ MtlReload
    \/ MtlWriteAndReload
    \/ RoundTripWithMtl
    \/ TryFrom
    \/ IntoGenmesh
    \/ LoadMtlsAgain
    \/ Load
    \/ LegacyLineV
    \/ LegacyLineVt
    \/ LegacyLineVn
    \/ LegacyLineF
    \/ LegacyLineOG
    \/ LegacyLineUsemtl
    \/ LegacyEndOfInput

Spec == Init /\ [][Next]_vars

\* The inputs of the loader of 2014.
InitLegacy == Init /\ class = "legacy"

NextLegacy ==
    \/ LegacyLineV
    \/ LegacyLineVt
    \/ LegacyLineVn
    \/ LegacyLineF
    \/ LegacyLineOG
    \/ LegacyLineUsemtl
    \/ LegacyEndOfInput

SpecLegacy == InitLegacy /\ [][NextLegacy]_vars

\* The inputs that exercise the index resolver: attribute and face lines.
InitResolver == Init /\ class \in {"fields", "relative"}

NextResolver ==
    \/ LineV
    \/ LineVt
    \/ LineVn
    \/ LineF
    \/ EndOfInput
    \/ WriteToBuf
    \/ Reload

SpecResolver == InitResolver /\ [][NextResolver]_vars

\* The inputs that exercise objects, groups and materials.
InitStructure == Init /\ class \in {"materials", "groups"}

NextStructure ==
    \/ LineF
    \/ LineO
    \/ LineG
    \/ LineUsemtl
    \/ EndOfInput
    \/ WriteToBuf
    \/ Reload

SpecStructure == InitStructure /\ [][NextStructure]_vars

\* The inputs a writer of OBJ files emits.
InitWellFormed == Init /\ class = "wellformed"

NextWellFormed ==
    \/ LineV
    \/ LineVt
    \/ LineVn
    \/ LineF
    \/ LineO
    \/ LineG
    \/ LineMtllib
    \/ LineUsemtl
    \/ EndOfInput
    \/ WriteToBuf
    \/ Reload

SpecWellFormed == InitWellFormed /\ [][NextWellFormed]_vars

\* The inputs that exercise the `o` command.
InitObjects == Init /\ class = "objects"

NextObjects ==
    \/ LineV
    \/ LineF
    \/ LineO
    \/ LineG
    \/ LineOther
    \/ LineBlank
    \/ EndOfInput

SpecObjects == InitObjects /\ [][NextObjects]_vars

\* The inputs that exercise the other commands, in both modes.
InitMisc == Init /\ class = "misc"

NextMisc ==
    \/ LineV
    \/ LineF
    \/ LineO
    \/ LineG
    \/ LineMtllib
    \/ LineUsemtl
    \/ LineS
    \/ LineL
    \/ LineOther
    \/ LineBlank
    \/ EndOfInput

SpecMisc == InitMisc /\ [][NextMisc]_vars

\* The inputs that exercise the material libraries.
InitLibs == Init /\ class = "libs"

NextLibs ==
    \/ LineG
    \/ LineMtllib
    \/ LineUsemtl
    \/ EndOfInput
    \/ LoadMtls
    \/ LoadMtlsAgain
    \/ Load

SpecLibs == InitLibs /\ [][NextLibs]_vars

\* The buffers that exercise Mtl::reload.
InitMtl == Init /\ class = "mtl"

NextMtl ==
    \/ MtlLine
    \/ MtlReload
    \/ MtlWriteAndReload

SpecMtl == InitMtl /\ [][NextMtl]_vars

\* The inputs that exercise the conversion to polygons of fixed arity.
InitPolygon == Init /\ class = "polygon"

NextPolygon ==
    \/ LineF
    \/ EndOfInput
    \/ TryFrom
    \/ IntoGenmesh

SpecPolygon == InitPolygon /\ [][NextPolygon]_vars

\* The inputs that exercise the errors of the parser, in both modes.
InitErrors == Init /\ class \in {"fields", "misc"}

NextErrors ==
    \/ LineV
    \/ LineVt
    \/ LineVn
    \/ LineF
    \/ LineO
    \/ LineG
    \/ LineMtllib
    \/ LineUsemtl
    \/ LineS
    \/ LineL
    \/ LineOther
    \/ LineBlank
    \/ EndOfInput

SpecErrors == InitErrors /\ [][NextErrors]_vars

\* The inputs that exercise the round trip of data with libraries.
InitRoundTrip == Init /\ class = "roundtrip"

NextRoundTrip ==
    \/ LineV
    \/ LineVn
    \/ LineF
    \/ LineMtllib
    \/ LineUsemtl
    \/ EndOfInput
    \/ LoadMtls
    \/ RoundTripWithMtl

SpecRoundTrip == InitRoundTrip /\ [][NextRoundTrip]_vars

(* ------------------------------------------------- vocabulary of the claims *)

Last(s) == s[Len(s)]

IsKind(line, kw) == First(line) = Some(kw)

\* The fields of an `f` line: its words after the command.
Fields(line) == Tail(SplitWhitespace(line))

\* The text of the position, texture and normal component of a field;
\* None where the field has no such component.
PosText(field) == SplitSlash(field)[1]

TexText(field) == Nth(SplitSlash(field), 2)

NorText(field) == Nth(SplitSlash(field), 3)

\* The integer a component denotes, if it denotes one.
IntOf(text) == FromStrIsize(text)

IsZero(text) == IntOf(text) = Some(0)

\* How many lines of the given kind come before line i of the stream.
NumBefore(i, kw) == Cardinality({j \in 1..(i - 1) : IsKind(stream[j], kw)})

LastLineIsFace == stream # <<>> /\ IsKind(Last(stream), Kw_f)

RECURSIVE AllGroups(_)
AllGroups(objects) ==
    IF objects = <<>> THEN <<>> ELSE Head(objects).groups \o AllGroups(Tail(objects))

RECURSIVE PolysOf(_)
PolysOf(groups) ==
    IF groups = <<>> THEN <<>> ELSE Head(groups).polys \o PolysOf(Tail(groups))

\* Every polygon of the parsed data, in order.
AllPolys(d) == PolysOf(AllGroups(d.objects))

\* The polygon of the last line, an accepted `f` line: the newest polygon
\* of the open group, or of the returned data once the input has ended.
LastPoly ==
    IF ret = None THEN Last(Unwrap(group).polys)
    ELSE Last(AllPolys(Data))

\* The stream holds attribute and face lines only.
OnlyAttributesAndFaces ==
    \A i \in 1..Len(stream) :
        \E kw \in {Kw_v, Kw_vt, Kw_vn, Kw_f} : IsKind(stream[i], kw)

FaceLineNumbers == {i \in 1..Len(stream) : IsKind(stream[i], Kw_f)}

\* The k-th `f` line of the stream, as a line number.
NthFace(k) ==
    CHOOSE i \in FaceLineNumbers : Cardinality({j \in FaceLineNumbers : j <= i}) = k

(* ----------------------------------------------------------------- claims *)

\* Every index of the parsed data points into its arrays.
Resolvable(d) ==
    \A k \in 1..Len(AllPolys(d)) :
        \A j \in 1..Len(AllPolys(d)[k]) :
            LET tuple == AllPolys(d)[k][j]
            IN  /\ tuple[1] < Len(d.position)
                /\ IsSome(tuple[2]) => Unwrap(tuple[2]) < Len(d.texture)
                /\ IsSome(tuple[3]) => Unwrap(tuple[3]) < Len(d.normal)

\* C1 (round trip): whenever the text written from a successfully parsed
\* ObjData has been loaded again, the load succeeded and returned a value
\* equal to that ObjData.  Stated for the data whose indices all resolve,
\* the inputs on which the claim asks least.
C1_RoundTrip ==
    (IsSome(reloaded) /\ Resolvable(Data)) => Unwrap(reloaded) = Ok(Data)

\* C2 (index resolvability): in the ObjData returned for an input whose last
\* line is an `f` line, every tuple of that face has a position index below
\* the number of `v` lines before the face, and a texture / normal index,
\* when present, below the number of `vt` / `vn` lines before it.
C2_IndexResolvable ==
    (Parsed /\ LastLineIsFace) =>
        \A j \in 1..Len(LastPoly) :
            LET tuple == LastPoly[j]
                n == Len(stream)
            IN  /\ tuple[1] < NumBefore(n, Kw_v)
                /\ IsSome(tuple[2]) => Unwrap(tuple[2]) < NumBefore(n, Kw_vt)
                /\ IsSome(tuple[3]) => Unwrap(tuple[3]) < NumBefore(n, Kw_vn)

\* What relative indexing makes of a component `text` read when `count`
\* elements have been declared: i - 1 for a positive i, count + i for a
\* negative i with |i| <= count.  None where the rule does not speak.
RelativeIndex(text, count) ==
    LET i == IntOf(text)
    IN  IF ~IsSome(i) THEN None
        ELSE IF Unwrap(i) > 0 THEN Some(Unwrap(i) - 1)
        ELSE IF Unwrap(i) < 0 /\ 0 - Unwrap(i) <= count THEN Some(count + Unwrap(i))
        ELSE None

\* The component agrees with the rule wherever the rule speaks.
Agrees(index, expected) == IsSome(expected) => index = expected

\* C3 (relative indexing): in the ObjData returned for a stream of attribute
\* and face lines, the k-th polygon holds, for every field of the k-th `f`
\* line, the index that the rule gives with the counts of `v`, `vt` and `vn`
\* lines before that line, whatever attribute lines follow it.
C3_RelativeIndexing ==
    (Parsed /\ OnlyAttributesAndFaces) =>
        /\ Len(AllPolys(Data)) = Cardinality(FaceLineNumbers)
        /\ \A k \in 1..Cardinality(FaceLineNumbers) :
            LET i == NthFace(k)
                fields == Fields(stream[i])
                poly == AllPolys(Data)[k]
            IN  /\ Len(poly) = Len(fields)
                /\ \A j \in 1..Len(fields) :
                    /\ Agrees(Some(poly[j][1]),
                              RelativeIndex(PosText(fields[j]), NumBefore(i, Kw_v)))
                    /\ IsSome(TexText(fields[j])) =>
                           Agrees(poly[j][2],
                                  RelativeIndex(Unwrap(TexText(fields[j])), NumBefore(i, Kw_vt)))
                    /\ IsSome(NorText(fields[j])) =>
                           Agrees(poly[j][3],
                                  RelativeIndex(Unwrap(NorText(fields[j])), NumBefore(i, Kw_vn)))

VertexLine == Sp(<<Kw_v, N0, N0, N0>>)

RelativeFaceLine == Sp(<<Kw_f, M4, M3, M2, M1>>)

\* C3, witness: four vertices, `f -4 -3 -2 -1`, four more vertices and the
\* same face line give the positions (0,1,2,3) and (4,5,6,7).
C3_Witness ==
    /\ Parsed
    /\ stream = <<VertexLine, VertexLine, VertexLine, VertexLine, RelativeFaceLine,
                  VertexLine, VertexLine, VertexLine, VertexLine, RelativeFaceLine>>
    /\ AllPolys(Data) =
           << <<<<0, None, None>>, <<1, None, None>>, <<2, None, None>>, <<3, None, None>>>>,
              <<<<4, None, None>>, <<5, None, None>>, <<6, None, None>>, <<7, None, None>>>> >>

\* The fields of the last line whose position component is zero, missing
\* or not an integer.
BadPosition(field) == ~IsSome(IntOf(PosText(field))) \/ IsZero(PosText(field))

BadFields == {j \in 1..Len(Fields(Last(stream))) : BadPosition(Fields(Last(stream))[j])}

FirstBadField == Fields(Last(stream))[CHOOSE j \in BadFields : \A k \in BadFields : j <= k]

FailedWith(kind) ==
    /\ Failed
    /\ Error.kind = kind
    /\ Error.line_number = Len(stream) - 1

\* C4 as claimed (position component errors): an `f` line with a field whose
\* position component is zero fails with ZeroVertexNumber, and an `f` line
\* with a field whose position component is missing or not an integer fails
\* with MalformedFaceGroup.
C4_PositionErrors ==
    LastLineIsFace =>
        \A j \in 1..Len(Fields(Last(stream))) :
            LET text == PosText(Fields(Last(stream))[j])
            IN  /\ IsZero(text) => FailedWith("ZeroVertexNumber")
                /\ ~IsSome(IntOf(text)) => FailedWith("MalformedFaceGroup")

\* C4 as amended: an `f` line with a field whose position component is zero,
\* missing or not an integer fails at that line with the error of the first
\* such field: ZeroVertexNumber if its position component is zero,
\* MalformedFaceGroup otherwise; the error is all that is returned.
C4_FirstOffendingField ==
    (LastLineIsFace /\ BadFields # {}) =>
        /\ FailedWith(IF IsZero(PosText(FirstBadField))
                      THEN "ZeroVertexNumber" ELSE "MalformedFaceGroup")
        /\ IsZero(PosText(FirstBadField)) \/ Error.detail = FirstBadField
        /\ Cur = ParserStart

\* C4, witness: a line with a malformed field after a zero field has failed
\* with ZeroVertexNumber.
C4_Witness ==
    /\ LastLineIsFace
    /\ Last(stream) = Face(N1, N0, <<"x">>)
    /\ FailedWith("ZeroVertexNumber")

\* The fields of the last line with a texture or normal component that is
\* the integer zero.
ZeroTexture(field) == IsSome(TexText(field)) /\ IsZero(Unwrap(TexText(field)))

ZeroNormal(field) == IsSome(NorText(field)) /\ IsZero(Unwrap(NorText(field)))

\* C5 as claimed (zero is always an error): an `f` line with a field whose
\* texture or normal component is 0 makes the parse fail.
C5_ZeroAlwaysError ==
    LastLineIsFace =>
        \A j \in 1..Len(Fields(Last(stream))) :
            (ZeroTexture(Fields(Last(stream))[j]) \/ ZeroNormal(Fields(Last(stream))[j]))
                => Failed

\* C5 as amended: a zero position component is an error, but a zero texture
\* or normal component is not: on a line whose position components are all
\* non-zero integers the parse goes on and the component is recorded as
\* absent.
C5_ZeroTextureNormalAbsent ==
    LastLineIsFace =>
        /\ (BadFields # {} /\ IsZero(PosText(FirstBadField))) => FailedWith("ZeroVertexNumber")
        /\ BadFields = {} =>
            /\ ~Failed
            /\ Len(LastPoly) = Len(Fields(Last(stream)))
            /\ \A j \in 1..Len(Fields(Last(stream))) :
                /\ ZeroTexture(Fields(Last(stream))[j]) => LastPoly[j][2] = None
                /\ ZeroNormal(Fields(Last(stream))[j]) => LastPoly[j][3] = None

\* C5, witness: `f 1/0/1 1 1` and `f 1/1/0 1 1` were both accepted, the
\* zero components recorded as absent.
C5_Witness ==
    /\ Parsed
    /\ Len(stream) = 2
    /\ stream[1] = Face(<<"1", "/", "0", "/", "1">>, N1, N1)
    /\ stream[2] = Face(<<"1", "/", "1", "/", "0">>, N1, N1)
    /\ AllPolys(Data)[1][1] = <<0, None, Some(0)>>
    /\ AllPolys(Data)[2][1] = <<0, Some(0), None>>

\* A component that is there, is not empty and is not an integer.
NotAnInteger(text) == IsSome(text) /\ Unwrap(text) # <<>> /\ ~IsSome(IntOf(Unwrap(text)))

\* C6 (no silent downgrade): an `f` line with a field whose texture or
\* normal component is non-empty and not an integer fails with
\* MalformedFaceGroup.
C6_MalformedTextureNormal ==
    LastLineIsFace =>
        \A j \in 1..Len(Fields(Last(stream))) :
            (NotAnInteger(TexText(Fields(Last(stream))[j]))
                \/ NotAnInteger(NorText(Fields(Last(stream))[j])))
                => FailedWith("MalformedFaceGroup")

\* C7 (face arity): every polygon of a successfully parsed ObjData has at
\* least three index tuples.
C7_FaceArity ==
    Parsed => \A k \in 1..Len(AllPolys(Data)) : Len(AllPolys(Data)[k]) >= 3

\* Line i is a `usemtl` / `g` line that gives a name.
Named(i, kw) == IsKind(stream[i], kw) /\ Len(SplitWhitespace(stream[i])) >= 2

\* Lines a..b of the stream are `f` lines, and there is at least one.
FacesRun(a, b) == a <= b /\ \A m \in a..b : IsKind(stream[m], Kw_f)

\* Arrays as long as the attribute lines before line i are many.
CountsAt(i) ==
    [position |-> [k \in 1..NumBefore(i, Kw_v) |-> <<0, 0, 0>>],
     texture |-> [k \in 1..NumBefore(i, Kw_vt) |-> <<0, 0>>],
     normal |-> [k \in 1..NumBefore(i, Kw_vn) |-> <<0, 0, 0>>]]

\* The polygons of the `f` lines a..b, each resolved where it stands.
FacesOf(a, b) ==
    [m \in 1..(b - a + 1) |->
        parse_face(CountsAt(a + m - 1), a + m - 2, Fields(stream[a + m - 1])).val]

IsSuffix(t, q) == Len(t) <= Len(q) /\ SubSeq(q, Len(q) - Len(t) + 1, Len(q)) = t

\* `usemtl A` at line i, faces, `usemtl B` at line j, faces up to line k,
\* where the run of faces ends.
SplitPattern(i, j, k) ==
    /\ Named(i, Kw_usemtl)
    /\ Named(j, Kw_usemtl)
    /\ FacesRun(i + 1, j - 1)
    /\ FacesRun(j + 1, k)
    /\ k = Len(stream) \/ ~IsKind(stream[k + 1], Kw_f)

\* No `usemtl` line between the line that opened the group (the last `g`
\* or `o` line, or the start) and line i.
NotItselfASplit(i) ==
    \A m \in 1..(i - 1) :
        IsKind(stream[m], Kw_usemtl) =>
            \E n \in (m + 1)..(i - 1) : IsKind(stream[n], Kw_g) \/ IsKind(stream[n], Kw_o)

\* C8 (material-triggered split): for `usemtl A`, faces, `usemtl B`, faces
\* with nothing between them, the returned data holds two consecutive
\* groups of one object with the same name and consecutive indices (0 and 1
\* if the first is not itself a split), the first with material A and the
\* faces before `usemtl B`, the second with material B and the faces after.
C8_MaterialSplit ==
    Parsed =>
        \A i, j, k \in 1..Len(stream) :
            SplitPattern(i, j, k) =>
                \E o \in 1..Len(Data.objects) :
                    \E m \in 1..(Len(Data.objects[o].groups) - 1) :
                        LET g1 == Data.objects[o].groups[m]
                            g2 == Data.objects[o].groups[m + 1]
                        IN  /\ g1.name = g2.name
                            /\ g2.index = g1.index + 1
                            /\ NotItselfASplit(i) => g1.index = 0
                            /\ g1.material = Some(MaterialRef(SplitWhitespace(stream[i])[2]))
                            /\ g2.material = Some(MaterialRef(SplitWhitespace(stream[j])[2]))
                            /\ IsSuffix(FacesOf(i + 1, j - 1), g1.polys)
                            /\ g2.polys = FacesOf(j + 1, k)

\* C9 (material persistence): walking the groups of all objects of the
\* returned data in order, no group without a material comes after a group
\* with one.
C9_MaterialPersistence ==
    Parsed =>
        \A a, b \in 1..Len(AllGroups(Data.objects)) :
            (a < b /\ IsSome(AllGroups(Data.objects)[a].material))
                => IsSome(AllGroups(Data.objects)[b].material)

\* `g X`, one or more faces, the first `usemtl` at line u, `g Y`, then
\* faces only.
PartialUsePattern(u) ==
    /\ u + 1 <= Len(stream)
    /\ Named(1, Kw_g)
    /\ FacesRun(2, u - 1)
    /\ Named(u, Kw_usemtl)
    /\ Named(u + 1, Kw_g)
    /\ \A m \in (u + 2)..Len(stream) : IsKind(stream[m], Kw_f)

\* C10 (partial material use): for `g X`, faces, `usemtl M`, `g Y`, faces,
\* the first group of the returned object has no material and the last
\* group has one.
C10_PartialMaterialUse ==
    Parsed =>
        \A u \in 1..Len(stream) :
            PartialUsePattern(u) =>
                /\ Data.objects[1].groups[1].material = None
                /\ Last(Data.objects[1].groups).material # None


\* How many lines of the given kind the stream holds.
NumLines(kw) == NumBefore(Len(stream) + 1, kw)

\* C11 (objects per `o` line): a successful parse of a stream with k `o`
\* lines returns exactly k + 1 objects, the first one the initial object
\* named "default".
C11_ObjectPerOLine ==
    Parsed =>
        /\ Len(Data.objects) = NumLines(Kw_o) + 1
        /\ Data.objects[1].name = DEFAULT_OBJECT

\* The first `o` line names the object, no other `o` line follows, and only
\* `v`, comment and blank lines come before it.
NamedObjectFirst(i) ==
    /\ IsKind(stream[i], Kw_o)
    /\ Len(SplitWhitespace(stream[i])) >= 2
    /\ NumLines(Kw_o) = 1
    /\ \A m \in 1..(i - 1) : ~IsKind(stream[m], Kw_g) /\ ~IsKind(stream[m], Kw_f)

\* C12 (no default object before a leading `o NAME`): when `o NAME` comes
\* before every `g` and `f` line and is the only `o` line, every object of
\* the parsed data is named NAME.
C12_LeadingObjectName ==
    Parsed =>
        \A i \in 1..Len(stream) :
            NamedObjectFirst(i) =>
                \A o \in 1..Len(Data.objects) :
                    Data.objects[o].name = JoinWith(Tail(SplitWhitespace(stream[i])), <<" ">>)

\* C12, witness: `v`, a comment, `o X`, `g a` and a face were parsed into
\* the single object X holding the group with its face.
C12_Witness ==
    /\ Parsed
    /\ Len(stream) = 5
    /\ IsKind(stream[1], Kw_v)
    /\ NamedObjectFirst(3)
    /\ IsKind(stream[4], Kw_g)
    /\ IsKind(stream[5], Kw_f)
    /\ Len(Data.objects) = 1
    /\ Data.objects[1].name = NameX
    /\ Len(Data.objects[1].groups) = 1
    /\ Len(Data.objects[1].groups[1].polys) = 1


\* The index a component must get at line i, None for a component that is
\* absent or empty; `kw` names the attribute it points into.
ExpectedIndex(text, i, kw) ==
    IF IsSome(text) /\ Unwrap(text) # <<>>
    THEN RelativeIndex(Unwrap(text), NumBefore(i, kw))
    ELSE None

\* A component that is absent, empty where it may be, or an index into the
\* elements declared before line i.
ValidComponent(text, i, kw, mayBeEmpty) ==
    \/ ~IsSome(text)
    \/ mayBeEmpty /\ Unwrap(text) = <<>>
    \/ /\ IsSome(ExpectedIndex(text, i, kw))
       /\ Unwrap(ExpectedIndex(text, i, kw)) < NumBefore(i, kw)

\* Line i is a valid `v` line: three numbers.
ValidVLine(i) ==
    /\ IsKind(stream[i], Kw_v)
    /\ Len(Fields(stream[i])) >= 3
    /\ \A j \in 1..3 : IsSome(FromStrF32(Fields(stream[i])[j]))

\* Line i is a valid `f` line: three fields or more, each of the shape p,
\* p/t, p//n or p/t/n with indices into what has been declared so far.
ValidFLine(i) ==
    /\ IsKind(stream[i], Kw_f)
    /\ Len(Fields(stream[i])) >= 3
    /\ \A j \in 1..Len(Fields(stream[i])) :
        LET field == Fields(stream[i])[j]
        IN  /\ Len(SplitSlash(field)) <= 3
            /\ PosText(field) # <<>>
            /\ ValidComponent(Some(PosText(field)), i, Kw_v, FALSE)
            /\ ValidComponent(TexText(field), i, Kw_vt, TRUE)
            /\ ValidComponent(NorText(field), i, Kw_vn, FALSE)

\* The stream is made of valid `v` lines and valid `f` lines, one face at
\* least.
VerticesAndFaces ==
    /\ FaceLineNumbers # {}
    /\ \A i \in 1..Len(stream) : ValidVLine(i) \/ ValidFLine(i)

\* The polygon an `f` line stands for.
ExpectedPoly(i) ==
    [j \in 1..Len(Fields(stream[i])) |->
        LET field == Fields(stream[i])[j]
        IN  <<Unwrap(ExpectedIndex(Some(PosText(field)), i, Kw_v)),
              ExpectedIndex(TexText(field), i, Kw_vt),
              ExpectedIndex(NorText(field), i, Kw_vn)>>]

VLineNumbers == {i \in 1..Len(stream) : IsKind(stream[i], Kw_v)}

\* The k-th `v` line of the stream, as a line number.
NthV(k) == CHOOSE i \in VLineNumbers : Cardinality({j \in VLineNumbers : j <= i}) = k

\* C13 (default object and group): a stream of valid `v` and `f` lines with
\* a face in it parses to one object "default" with one group "default" of
\* index 0 and no material, whose polygons are the faces in stream order
\* with zero-based tuples, and to the positions of the `v` lines in order.
C13_DefaultObjectAndGroup ==
    (IsSome(ret) /\ VerticesAndFaces) =>
        /\ Parsed
        /\ Data.position =
               [k \in 1..Cardinality(VLineNumbers) |->
                   [j \in 1..3 |-> Unwrap(FromStrF32(Fields(stream[NthV(k)])[j]))]]
        /\ Data.objects =
               <<[name |-> <<"d", "e", "f", "a", "u", "l", "t">>,
                  groups |->
                      <<[name |-> <<"d", "e", "f", "a", "u", "l", "t">>,
                         index |-> 0,
                         material |-> None,
                         polys |-> [k \in 1..Cardinality(FaceLineNumbers) |->
                                       ExpectedPoly(NthFace(k))]]>>]>>

\* C13, witness: four vertices and the faces `f -4 -3 -2 -1` and `f 1 2 3`
\* were parsed, the second face after the first.
C13_Witness ==
    /\ Parsed
    /\ VerticesAndFaces
    /\ Len(stream) = 6
    /\ stream[5] = Sp(<<Kw_f, M4, M3, M2, M1>>)
    /\ stream[6] = Face(N1, N2, N3)
    /\ AllPolys(Data) = <<ExpectedPoly(5), ExpectedPoly(6)>>
    /\ ExpectedPoly(5) # ExpectedPoly(6)


\* A line whose first token is no recognized command and does not start
\* with `#`.
Unknown(line) ==
    /\ IsSome(First(line))
    /\ Unwrap(First(line)) \notin
           {Kw_v, Kw_vt, Kw_vn, Kw_f, Kw_o, Kw_g, Kw_mtllib, Kw_usemtl, Kw_s, Kw_l}
    /\ Head(Unwrap(First(line))) # "#"

\* The stream without its unknown lines.
Known == SelectSeq(stream, LAMBDA line : ~Unknown(line))

\* How many unknown lines come before line i of the stream.
UnknownBefore(i) == Cardinality({j \in 1..(i - 1) : Unknown(stream[j])})

\* In strict mode the unknown line that has just been read failed the parse
\* with UnexpectedCommand and its first token.
StrictRejects ==
    (strict /\ stream # <<>> /\ Unknown(Last(stream))) =>
        /\ FailedWith("UnexpectedCommand")
        /\ Error.line_number = Len(stream) - 1
        /\ Error.detail = Unwrap(First(Last(stream)))

\* C14 as claimed (strict-mode toggle): in strict mode an unknown line
\* fails the parse with UnexpectedCommand and its token; in permissive mode
\* the result is the result of parsing, in either mode, the input without
\* its unknown lines.
C14_StrictToggle ==
    /\ StrictRejects
    /\ (~strict /\ IsSome(ret)) =>
           \A s \in BOOLEAN : Unwrap(ret) = load_buf_with_config(Known, s)

\* C14 as amended: the same, but in permissive mode only a successful
\* result is the same with the unknown lines removed; a failure is the same
\* error with the line number of the offending line in the input it was
\* read from, unknown lines counted.
C14_StrictToggleLineNumbers ==
    /\ StrictRejects
    /\ (~strict /\ IsSome(ret)) =>
           \A s \in BOOLEAN :
               LET r == load_buf_with_config(Known, s)
               IN  /\ Parsed => r = Unwrap(ret)
                   /\ Failed =>
                       /\ ~r.ok
                       /\ r.err.kind = Error.kind
                       /\ r.err.detail = Error.detail
                       /\ r.err.line_number = Error.line_number - UnknownBefore(Len(stream))

\* C14, witness: in permissive mode `v`, `adjf 0 1` and a face were parsed
\* into one position and one polygon.
C14_Witness ==
    /\ ~strict
    /\ Parsed
    /\ Len(stream) = 3
    /\ IsKind(stream[1], Kw_v)
    /\ Unknown(stream[2])
    /\ IsKind(stream[3], Kw_f)
    /\ Len(Data.position) = 1
    /\ Len(AllPolys(Data)) = 1


\* What load_mtls_fn left, and the resolve it was called with (only where
\* mtls is set).
Out == Unwrap(mtls).out

Resolve == Unwrap(mtls).resolve

\* The libraries of the parsed data, by position in material_libs.
Libs == 1..Len(Data.material_libs)

\* What reloading library k alone gives with that resolve.
Reloaded(k) == reload_with(Data.material_libs[k], Resolve[Data.material_libs[k].filename])

\* Library k loads successfully / defines a material of that name.
Loads(k) == Reloaded(k).res.ok

Defines(k, name) ==
    Loads(k) /\ \E i \in 1..Len(Reloaded(k).mtl.materials) :
                    Reloaded(k).mtl.materials[i].name = name

\* The first library, in declaration order, that loads and defines name.
FirstDefining(name) ==
    CHOOSE k \in Libs : Defines(k, name) /\ \A j \in 1..(k - 1) : ~Defines(j, name)

\* The groups before and after load_mtls_fn, all objects in order.
GroupsBefore == AllGroups(Data.objects)

GroupsAfter == AllGroups(Out.data.objects)

\* Group i refers to a material by name / to one a loaded library defines.
Refers(i) == IsSome(GroupsBefore[i].material)

RefName(i) == MaterialName(Unwrap(GroupsBefore[i].material))

Defined(i) == Refers(i) /\ \E k \in Libs : Defines(k, RefName(i))

\* C15 (first match wins): after load_mtls_fn every group whose material
\* name is defined in a library that loaded is bound to a definition of
\* that name from the first such library in declaration order.
C15_FirstMatchWins ==
    IsSome(mtls) =>
        /\ Len(GroupsAfter) = Len(GroupsBefore)
        /\ \A i \in 1..Len(GroupsBefore) :
            Defined(i) =>
                /\ IsSome(GroupsAfter[i].material)
                /\ Unwrap(GroupsAfter[i].material).kind = "Mtl"
                /\ LET m == Unwrap(GroupsAfter[i].material).material
                       defs == Reloaded(FirstDefining(RefName(i))).mtl.materials
                   IN  /\ m.name = RefName(i)
                       /\ \E d \in 1..Len(defs) : defs[d] = m

\* C15, witness: `mtllib q`, `mtllib p`, `usemtl A`, both files define A,
\* each with its own Ns, and the group got the definition of q.
C15_Witness ==
    /\ IsSome(mtls)
    /\ Len(Data.material_libs) = 2
    /\ Data.material_libs[1].filename = FileQ
    /\ Data.material_libs[2].filename = FileP
    /\ Defines(1, NameA)
    /\ Defines(2, NameA)
    /\ Reloaded(1).mtl.materials # Reloaded(2).mtl.materials
    /\ Len(GroupsBefore) = 1
    /\ Refers(1)
    /\ RefName(1) = NameA
    /\ Unwrap(GroupsAfter[1].material) = MaterialMtl([MaterialNew(NameA) EXCEPT !.ns = Some(2)])


\* The libraries from k on that fail to load, in declaration order.
RECURSIVE FailingFrom(_)
FailingFrom(k) ==
    IF k > Len(Data.material_libs) THEN <<>>
    ELSE (IF Loads(k) THEN <<>> ELSE <<k>>) \o FailingFrom(k + 1)

\* The error list load_mtls_fn returned, empty for Ok.
Errs == IF Out.res.ok THEN <<>> ELSE Out.res.err

\* C16 (partial-failure isolation): the error list holds one (filename,
\* error) entry per failing library, in declaration order; the libraries
\* that load hold their materials whatever failed before them; groups whose
\* name a loaded library defines are resolved even when the call returns
\* Err; and the call returns Ok exactly when no library failed.
C16_FailureIsolation ==
    IsSome(mtls) =>
        /\ Errs = [i \in 1..Len(FailingFrom(1)) |->
                      <<Data.material_libs[FailingFrom(1)[i]].filename,
                        Reloaded(FailingFrom(1)[i]).res.err>>]
        /\ Out.res.ok <=> FailingFrom(1) = <<>>
        /\ Len(Out.data.material_libs) = Len(Data.material_libs)
        /\ \A k \in Libs :
            Loads(k) => Out.data.material_libs[k] = Reloaded(k).mtl
        /\ \A i \in 1..Len(GroupsBefore) :
            Defined(i) => /\ IsSome(GroupsAfter[i].material)
                          /\ Unwrap(GroupsAfter[i].material).kind = "Mtl"

\* C16, witness: `mtllib p`, `mtllib q`, `usemtl A`; p failed to parse, q
\* defines A: the call returned one error, for p, and the group is resolved.
C16_Witness ==
    /\ IsSome(mtls)
    /\ Len(Data.material_libs) = 2
    /\ Data.material_libs[1].filename = FileP
    /\ Data.material_libs[2].filename = FileQ
    /\ Resolve[FileP].ok
    /\ ~Loads(1)
    /\ Defines(2, NameA)
    /\ ~Out.res.ok
    /\ Len(Errs) = 1
    /\ Errs[1][1] = FileP
    /\ Len(GroupsBefore) = 1
    /\ Refers(1)
    /\ RefName(1) = NameA
    /\ Unwrap(GroupsAfter[1].material).kind = "Mtl"

\* C17 (no partial result): after load_mtls_fn a library that failed to
\* load holds none of the materials read from its buffer.
C17_NoPartialResult ==
    IsSome(mtls) =>
        \A k \in Libs : ~Loads(k) => Out.data.material_libs[k].materials = <<>>

\* C18 (unresolved names stay): after load_mtls_fn a group whose material
\* name no loaded library defines, and a group with no material, are as
\* they were, and the error list has entries for failing libraries only.
C18_UnresolvedStay ==
    IsSome(mtls) =>
        /\ Len(GroupsAfter) = Len(GroupsBefore)
        /\ \A i \in 1..Len(GroupsBefore) :
            ~Defined(i) => GroupsAfter[i] = GroupsBefore[i]
        /\ Len(Errs) = Cardinality({k \in Libs : ~Loads(k)})

\* C18, witness: `mtllib p`, `usemtl B`, `g a`, and p defines A only: the
\* call returned Ok, the first group still refers to B by name and the
\* second has no material.
C18_Witness ==
    /\ IsSome(mtls)
    /\ Len(Data.material_libs) = 1
    /\ Defines(1, NameA)
    /\ ~Defines(1, NameB)
    /\ Out.res.ok
    /\ Len(GroupsAfter) = 2
    /\ GroupsAfter[1].material = Some(MaterialRef(NameB))
    /\ GroupsAfter[2].material = None


\* C19 (writer invariant on parser output): in every object of the parsed
\* data a group with index > 0 comes right after a group of the same name
\* with the index one less, and writing the parsed data does not panic.
C19_WriterInvariant ==
    Parsed =>
        /\ \A o \in 1..Len(Data.objects) :
            \A m \in 1..Len(Data.objects[o].groups) :
                LET groups == Data.objects[o].groups
                IN  groups[m].index > 0 =>
                        /\ m > 1
                        /\ groups[m - 1].name = groups[m].name
                        /\ groups[m - 1].index = groups[m].index - 1
        /\ IsSome(written) => ~Unwrap(written).panic

\* C19, witness: `usemtl A`, a face, `usemtl B`, a face, `usemtl A` were
\* parsed into an object with groups of index 0, 1 and 2, and written.
C19_Witness ==
    /\ Parsed
    /\ IsSome(written)
    /\ ~Unwrap(written).panic
    /\ Len(Data.objects) = 1
    /\ Len(Data.objects[1].groups) = 3
    /\ Data.objects[1].groups[2].index = 1
    /\ Data.objects[1].groups[3].index = 2

\* C20 (index disambiguates): no two groups of one object of the parsed
\* data have both the same name and the same index.
C20_IndexDisambiguates ==
    Parsed =>
        \A o \in 1..Len(Data.objects) :
            \A m, n \in 1..Len(Data.objects[o].groups) :
                LET groups == Data.objects[o].groups
                IN  (m < n /\ groups[m].name = groups[n].name)
                        => groups[m].index # groups[n].index


MtllibLineNumbers == {i \in 1..Len(stream) : IsKind(stream[i], Kw_mtllib)}

\* The k-th `mtllib` line of the stream, as a line number.
NthMtllib(k) ==
    CHOOSE i \in MtllibLineNumbers : Cardinality({j \in MtllibLineNumbers : j <= i}) = k

\* C21 (mtllib handling): a `mtllib` line with no further token fails the
\* parse with MissingMTLName; the libraries of the parsed data are one per
\* `mtllib` line, in stream order, named by the remaining tokens joined by
\* single spaces, and hold no material.
C21_MtllibHandling ==
    /\ (stream # <<>> /\ IsKind(Last(stream), Kw_mtllib) /\ Fields(Last(stream)) = <<>>)
           => FailedWith("MissingMTLName")
    /\ Parsed =>
           Data.material_libs =
               [k \in 1..Cardinality(MtllibLineNumbers) |->
                   [filename |-> JoinWith(Fields(stream[NthMtllib(k)]), <<" ">>),
                    materials |-> <<>>]]

\* C21, witness: `mtllib m`, `mtllib  m n` and `mtllib m` again gave the
\* libraries "m", "m n" and "m".
C21_Witness ==
    /\ Parsed
    /\ Len(stream) = 3
    /\ Len(Data.material_libs) = 3
    /\ Data.material_libs[1].filename = <<"m">>
    /\ Data.material_libs[2].filename = <<"m", " ", "n">>
    /\ Data.material_libs[3].filename = <<"m">>


\* Mtl::reload has returned Ok, or an error.
LibOk == IsSome(lib) /\ Unwrap(lib).out.res.ok

LibFailed == IsSome(lib) /\ ~Unwrap(lib).out.res.ok

\* The materials Mtl::reload left in the library.
LibMaterials == Unwrap(lib).out.mtl.materials

\* The words of a line of the MTL buffer.
WordsOf(lines, i) == SplitWhitespace(lines[i])

NewmtlNumbers(lines) == {i \in 1..Len(lines) : IsKind(lines[i], Kw_newmtl)}

\* The k-th `newmtl` line, as a line number.
NthNewmtl(lines, k) ==
    CHOOSE i \in NewmtlNumbers(lines) :
        Cardinality({j \in NewmtlNumbers(lines) : j <= i}) = k

\* The lines between a `newmtl` line and the next one (or the end) that set
\* the given field.
Setters(lines, i, field) ==
    {j \in (i + 1)..Len(lines) :
        /\ \A n \in NewmtlNumbers(lines) : ~(i < n /\ n < j)
        /\ WordsOf(lines, j) # <<>>
        /\ <<WordsOf(lines, j)[1], field>> \in ValueInstructions}

\* The value the last of these lines gives the field; None without one.
ExpectedField(lines, i, field) ==
    IF Setters(lines, i, field) = {} THEN None
    ELSE LET j == CHOOSE x \in Setters(lines, i, field) :
                      \A y \in Setters(lines, i, field) : y <= x
         IN  Some(MtlValue(WordsOf(lines, j)[1], Tail(WordsOf(lines, j))).val)

MaterialFields == (DOMAIN MaterialNew(<<>>)) \ {"name"}

\* The material the claim expects for the `newmtl` line i.
ExpectedMaterial(lines, i) ==
    [f \in DOMAIN MaterialNew(<<>>) |->
        IF f = "name" THEN WordsOf(lines, i)[2] ELSE ExpectedField(lines, i, f)]

\* C22 (MTL parser state machine): after a successful Mtl::reload the
\* library holds one material per `newmtl` line of the buffer, in order,
\* each with the fields set between its `newmtl` line and the next one, the
\* last assignment of a field winning; nothing of a previous load is left.
C22_MaterialPerNewmtl ==
    LibOk =>
        LibMaterials =
            [k \in 1..Cardinality(NewmtlNumbers(buffer)) |->
                ExpectedMaterial(buffer, NthNewmtl(buffer, k))]

\* C22, witness: a library that held X was reloaded from `newmtl A`,
\* `Ns 1`, `Ns 2`, `newmtl A`: two materials A, the first one with Ns 2.
C22_Witness ==
    /\ LibOk
    /\ Unwrap(lib).before # <<>>
    /\ Len(buffer) = 4
    /\ Len(LibMaterials) = 2
    /\ LibMaterials[1].name = NameA
    /\ LibMaterials[1].ns = Some(2)
    /\ LibMaterials[2] = MaterialNew(NameA)


\* The error Mtl::reload returned (only where LibFailed).
LibError == Unwrap(lib).out.res.err

IsF32(w) == IsSome(FromStrF32(w))

IsI32(w) == IsSome(FromStrI32(w))

\* The arguments of a value instruction are missing or do not parse.
BadArguments(key, args) ==
    IF \E p \in VecInstructions : p[1] = key
    THEN Len(args) < 3 \/ ~IsF32(args[1]) \/ ~IsF32(args[2]) \/ ~IsF32(args[3])
    ELSE IF \E p \in F32Instructions : p[1] = key
    THEN args = <<>> \/ ~IsF32(args[1])
    ELSE IF \E p \in I32Instructions : p[1] = key
    THEN args = <<>> \/ ~IsI32(args[1])
    ELSE args = <<>>

\* The kinds of error the claim allows for line j of the buffer; none for a
\* line that must not fail.
Offence(lines, j) ==
    LET words == WordsOf(lines, j)
    IN  IF words = <<>> \/ Head(words[1]) = "#" THEN {}
        ELSE IF words[1] = Kw_newmtl
        THEN (IF Len(words) < 2 THEN {"MissingMaterialName"} ELSE {})
        ELSE IF \E p \in ValueInstructions : p[1] = words[1]
        THEN (IF /\ \E n \in NewmtlNumbers(lines) : n < j
                 /\ BadArguments(words[1], Tail(words))
              THEN {"InvalidValue", "MissingValue"}
              ELSE {})
        ELSE {"InvalidInstruction"}

Offending(lines) == {j \in 1..Len(lines) : Offence(lines, j) # {}}

\* C23 (MTL error outcomes): Mtl::reload fails exactly when the buffer has
\* an unknown instruction that is no comment (InvalidInstruction), a
\* `newmtl` without a name (MissingMaterialName), or a value instruction
\* inside a material with missing or unparsable arguments (InvalidValue or
\* MissingValue), and it fails with the kind of the first such line; comment
\* and blank lines never fail.
C23_MtlErrors ==
    IsSome(lib) =>
        IF Offending(buffer) = {} THEN LibOk
        ELSE /\ LibFailed
             /\ LibError.kind \in
                    Offence(buffer, CHOOSE j \in Offending(buffer) :
                                        \A i \in Offending(buffer) : j <= i)

\* C23, witness: after `newmtl A`, a comment and a blank line, `Ka 0 1`
\* failed with InvalidValue.
C23_Witness ==
    /\ LibFailed
    /\ LibError.kind = "InvalidValue"
    /\ Len(buffer) = 4
    /\ buffer[1] = NewmtlLine(NameA)
    /\ First(buffer[2]) = Some(<<"#">>)
    /\ buffer[3] = <<>>
    /\ First(buffer[4]) = Some(<<"K", "a">>)


\* The lines without line j.
Without(lines, j) == SubSeq(lines, 1, j - 1) \o SubSeq(lines, j + 1, Len(lines))

\* The value instructions of the buffer that come before the first `newmtl`.
OutsideMaterial(lines) ==
    {j \in 1..Len(lines) :
        /\ \A n \in NewmtlNumbers(lines) : j < n
        /\ WordsOf(lines, j) # <<>>
        /\ \E p \in ValueInstructions : p[1] = WordsOf(lines, j)[1]}

\* C24 (MTL instructions outside a material are no-ops): a coefficient or
\* map instruction before the first `newmtl` does not fail, whatever its
\* arguments, and Mtl::reload leaves what it leaves for the buffer without
\* that line.
C24_OutsideMaterialNoOp ==
    IsSome(lib) =>
        \A j \in OutsideMaterial(buffer) :
            /\ LibFailed => \E i \in Offending(buffer) : i # j
            /\ reload([filename |-> FileP, materials |-> Unwrap(lib).before],
                      Without(buffer, j)) = Unwrap(lib).out

\* C24, witness: `Ns x` and `Ka 0 1` came before `newmtl A`, and the parse
\* succeeded with the one material A, nothing set.
C24_Witness ==
    /\ LibOk
    /\ Len(buffer) = 4
    /\ WordsOf(buffer, 1) = <<<<"N", "s">>, <<"x">>>>
    /\ Len(WordsOf(buffer, 2)) = 3
    /\ WordsOf(buffer, 2)[1] = <<"K", "a">>
    /\ buffer[3] = NewmtlLine(NameA)
    /\ 4 \in Setters(buffer, 3, "ns")
    /\ LibMaterials = <<[MaterialNew(NameA) EXCEPT !.ns = Some(1)]>>


\* The resolved data that went into the round trip, and what came back.
Original == Unwrap(mtls).out.data

RoundTripped == Unwrap(round).data

\* C25, its first half (MTL round trip): Mtl::reload of the text that
\* Mtl::write_to_buf wrote for a loaded library succeeds and gives equal
\* materials.
C25_MtlRoundTrip ==
    IsSome(back) =>
        /\ Unwrap(back).res.ok
        /\ Unwrap(back).mtl.materials = LibMaterials

\* C25 (MTL round trip): data whose libraries were resolved, written (OBJ
\* and each MTL) and reloaded through load_mtls_fn with the written texts:
\* every library comes back with equal materials, and the data that comes
\* back equals the resolved data.
C25_RoundTrip ==
    IsSome(round) =>
        /\ ~Unwrap(round).panic
        /\ Len(RoundTripped.material_libs) = Len(Original.material_libs)
        /\ \A k \in 1..Len(Original.material_libs) :
               RoundTripped.material_libs[k].materials
                   = Original.material_libs[k].materials
        /\ RoundTripped = Original


\* How many of the arguments of a line are numbers.
ParsableNumbers(line) ==
    Cardinality({k \in 1..Len(Fields(line)) : IsF32(Fields(line)[k])})

\* A field of an `f` line that does not parse: a bad position, or a texture
\* or normal component that is not empty and no integer.
BadField(field) ==
    \/ BadPosition(field)
    \/ /\ IsSome(TexText(field))
       /\ Unwrap(TexText(field)) # <<>>
       /\ ~IsSome(IntOf(Unwrap(TexText(field))))
    \/ /\ IsSome(NorText(field))
       /\ ~IsSome(IntOf(Unwrap(NorText(field))))

\* The kinds of error the claim allows for a line; none for a line that
\* does not offend.  Bad tells which fields of an `f` line are bad.
OffenceOf(line, mode, Bad(_)) ==
    IF IsKind(line, Kw_v) \/ IsKind(line, Kw_vn)
    THEN (IF ParsableNumbers(line) < 3 THEN {"ArgumentListFailure"} ELSE {})
    ELSE IF IsKind(line, Kw_vt)
    THEN (IF ParsableNumbers(line) < 2 THEN {"ArgumentListFailure"} ELSE {})
    ELSE IF IsKind(line, Kw_f)
    THEN (IF \E k \in 1..Len(Fields(line)) : Bad(Fields(line)[k])
          THEN {"ZeroVertexNumber", "MalformedFaceGroup"} ELSE {})
    ELSE IF IsKind(line, Kw_mtllib)
    THEN (IF Fields(line) = <<>> THEN {"MissingMTLName"} ELSE {})
    ELSE IF mode /\ Unknown(line) THEN {"UnexpectedCommand"}
    ELSE {}

OffendingLines(Bad(_)) == {i \in 1..Len(stream) : OffenceOf(stream[i], strict, Bad) # {}}

\* Lines that may follow the line that failed: some offend, some do not.
Following ==
    { Sp(<<Kw_v, N0, N0, N0>>),
      Sp(<<Kw_v, N0, N0>>),
      Sp(<<Kw_vt, N0>>),
      Face(N1, N0, <<"x">>),
      Face(N1, N1, N1),
      Kw_mtllib,
      Sp(<<<<"a", "d", "j", "f">>, N0, N1>>),
      Sp(<<Kw_o, NameX>>) }

\* When a line of the buffer offends, load_buf_with_config returns an error
\* and no data, the error is of the kind and has the line number of the
\* earliest offending line, and it is the error returned whatever line
\* follows.
FatalAndOrdered(Bad(_)) ==
    /\ OffendingLines(Bad) # {} =>
           /\ Failed
           /\ Error.line_number + 1 \in OffendingLines(Bad)
           /\ \A i \in OffendingLines(Bad) : Error.line_number + 1 <= i
           /\ Error.kind \in OffenceOf(stream[Error.line_number + 1], strict, Bad)
    /\ Failed =>
           \A line \in Following :
               load_buf_with_config(Append(stream, line), strict) = Unwrap(ret)

\* C26 (OBJ parse errors are fatal and ordered): a `v`/`vn` line with fewer
\* than three or a `vt` line with fewer than two numbers, an `f` line with a
\* field that does not parse, a bare `mtllib` and, in strict mode, an
\* unknown command make load_buf_with_config fail with the error of the
\* earliest such line, whatever follows it.
C26_FatalAndOrdered == FatalAndOrdered(BadField)

\* C26 where only the position component makes a field bad.
C26_FatalAndOrderedPosition == FatalAndOrdered(BadPosition)

\* The polygon that was converted, and what the conversion gave.
Converted == Unwrap(genmesh).poly

Conversion == Unwrap(genmesh).out

\* C27 (fixed-arity adaptation): try_from gives a triangle for exactly 3
\* tuples and a quad for exactly 4, the tuples in their order, and for any
\* other count n the error GenMeshWrongNumberOfVertsInPolygon with
\* vert_count = n; into_genmesh panics in exactly those cases and gives the
\* same polygon otherwise.
C27_FixedArity ==
    IsSome(genmesh) =>
        /\ Unwrap(genmesh).by = "try_from" =>
               /\ Len(Converted) = 3 =>
                      Conversion = Ok([kind |-> "PolyTri", x |-> Converted[1],
                                       y |-> Converted[2], z |-> Converted[3]])
               /\ Len(Converted) = 4 =>
                      Conversion = Ok([kind |-> "PolyQuad", x |-> Converted[1],
                                       y |-> Converted[2], z |-> Converted[3],
                                       w |-> Converted[4]])
               /\ Len(Converted) \notin {3, 4} =>
                      Conversion = Err([kind |-> "GenMeshWrongNumberOfVertsInPolygon",
                                        vert_count |-> Len(Converted)])
        /\ Unwrap(genmesh).by = "into_genmesh" =>
               /\ Conversion.panic <=> Len(Converted) \notin {3, 4}
               /\ ~Conversion.panic =>
                      /\ Conversion.val.kind =
                             (IF Len(Converted) = 3 THEN "PolyTri" ELSE "PolyQuad")
                      /\ Conversion.val.x = Converted[1]
                      /\ Conversion.val.y = Converted[2]
                      /\ Conversion.val.z = Converted[3]
                      /\ Len(Converted) = 4 => Conversion.val.w = Converted[4]

\* C27, witness: the polygon of `f 4 3 2 1` was converted by try_from to the
\* quad of the positions 3, 2, 1, 0.
C27_Witness ==
    /\ IsSome(genmesh)
    /\ Unwrap(genmesh).by = "try_from"
    /\ Converted = <<<<3, None, None>>, <<2, None, None>>, <<1, None, None>>,
                     <<0, None, None>>>>
    /\ Conversion.ok
    /\ Conversion.val.kind = "PolyQuad"
    /\ Conversion.val.x = <<3, None, None>>
    /\ Conversion.val.w = <<0, None, None>>


\* The tuples of the parsed data.
ParsedTuples ==
    UNION {{AllPolys(Data)[k][j] : j \in 1..Len(AllPolys(Data)[k])} :
              k \in 1..Len(AllPolys(Data))}

\* C28 (the text form of an IndexTuple is an inverse of the resolver): for
\* every tuple of the parsed data, all indices in range, the resolver gives
\* the tuple back for the text that Display writes for it, the attribute
\* counts being those of the data; a tuple with a normal and no texture
\* comes back with a normal and no texture.
C28_TextFormInverse ==
    (Parsed /\ Resolvable(Data)) =>
        \A tuple \in ParsedTuples :
            \A checks \in BOOLEAN :
                IsSome(DisplayIndexTuple(tuple, checks)) =>
                    parse_group(Data, 0, Unwrap(DisplayIndexTuple(tuple, checks)))
                        = Ok(tuple)


\* C29 (face conservation): the polygons of all groups of all objects of a
\* successfully parsed result, in order, are the polygons of the `f` lines
\* of the stream in stream order, one tuple per face field.
C29_FaceConservation ==
    Parsed =>
        AllPolys(Data) =
            [k \in 1..Cardinality(FaceLineNumbers) |-> ExpectedPoly(NthFace(k))]


LineNumbers(kw) == {i \in 1..Len(stream) : IsKind(stream[i], kw)}

\* The k-th line of the given kind, as a line number.
NthLine(kw, k) ==
    CHOOSE i \in LineNumbers(kw) : Cardinality({j \in LineNumbers(kw) : j <= i}) = k

\* The first n numbers of each line of the given kind, in stream order.
ValuesOf(kw, n) ==
    [k \in 1..Cardinality(LineNumbers(kw)) |->
        [j \in 1..n |-> Unwrap(FromStrF32(Fields(stream[NthLine(kw, k)])[j]))]]

\* The arrays while the lines are read, and those of the result.
Arrays == IF Parsed THEN Data ELSE dat

\* A step that read a line of the given kind without failing.
Read(kw) == stream' # stream /\ IsKind(Last(stream'), kw) /\ ret' = None

\* C30 (append-only attribute arrays): while the parse has not failed, the
\* position, texture and normal arrays are the values of the `v`, `vt` and
\* `vn` lines read, in stream order; a `v`, `vt` or `vn` line appends one
\* element to its array and changes neither the other arrays nor the
\* current object or group, and an `f`, `o`, `g`, `usemtl` or `mtllib` line
\* changes none of the arrays.
C30_AppendOnly ==
    /\ [](~Failed =>
              /\ Arrays.position = ValuesOf(Kw_v, 3)
              /\ Arrays.texture = ValuesOf(Kw_vt, 2)
              /\ Arrays.normal = ValuesOf(Kw_vn, 3))
    /\ [][/\ Read(Kw_v) =>
                 /\ Len(dat'.position) = Len(dat.position) + 1
                 /\ [dat' EXCEPT !.position = dat.position] = dat
                 /\ <<object', group'>> = <<object, group>>
          /\ Read(Kw_vt) =>
                 /\ Len(dat'.texture) = Len(dat.texture) + 1
                 /\ [dat' EXCEPT !.texture = dat.texture] = dat
                 /\ <<object', group'>> = <<object, group>>
          /\ Read(Kw_vn) =>
                 /\ Len(dat'.normal) = Len(dat.normal) + 1
                 /\ [dat' EXCEPT !.normal = dat.normal] = dat
                 /\ <<object', group'>> = <<object, group>>
          /\ (Read(Kw_f) \/ Read(Kw_o) \/ Read(Kw_g) \/ Read(Kw_usemtl) \/ Read(Kw_mtllib)) =>
                 /\ dat'.position = dat.position
                 /\ dat'.texture = dat.texture
                 /\ dat'.normal = dat.normal]_vars

\* C30, witness: `v 1 2 3`, `vt 0 1`, `v 0 0 0` gave the positions
\* (1, 2, 3), (0, 0, 0) and the texture coordinate (0, 1).
C30_Witness ==
    /\ Parsed
    /\ Len(stream) = 3
    /\ IsKind(stream[2], Kw_vt)
    /\ Data.position = <<<<1, 2, 3>>, <<0, 0, 0>>>>
    /\ Data.texture = <<<<0, 1>>>>
    /\ Data.normal = <<>>


\* An `s` line, an `l` line, a comment or a blank line.
NoOp(line) ==
    \/ IsKind(line, Kw_s)
    \/ IsKind(line, Kw_l)
    \/ ~IsSome(First(line))
    \/ IsSome(First(line)) /\ Head(Unwrap(First(line))) = "#"

NoOpLines == {j \in 1..Len(stream) : NoOp(stream[j])}

\* The result for the input without line j is the result for the input: the
\* same data, or the same error one line earlier where j came before it.
SameWithout(j) ==
    LET r == load_buf_with_config(Without(stream, j), strict)
    IN  /\ Parsed => r = Unwrap(ret)
        /\ Failed =>
               /\ ~r.ok
               /\ r.err.kind = Error.kind
               /\ r.err.detail = Error.detail
               /\ r.err.line_number = Error.line_number - 1

\* C31 (no-op lines): in both modes an `s` line, an `l` line, a comment and
\* a blank line leave dat, object and group as they are and do not fail, and
\* the parse of an input without one of them succeeds with the same data or
\* fails in the same way.
C31_NoOpLines ==
    /\ [](IsSome(ret) => \A j \in NoOpLines : SameWithout(j))
    /\ [][(stream' # stream /\ NoOp(Last(stream'))) =>
              /\ ret' = None
              /\ <<dat', object', group'>> = <<dat, object, group>>]_vars

\* C31, witness: in strict mode a comment between `v` and a face was read
\* and the parse gave one position and one polygon.
C31_Witness ==
    /\ strict
    /\ Parsed
    /\ Len(stream) = 3
    /\ IsKind(stream[1], Kw_v)
    /\ NoOpLines = {2}
    /\ stream[2] # <<>>
    /\ Head(stream[2]) = "#"
    /\ IsKind(stream[3], Kw_f)
    /\ Len(Data.position) = 1
    /\ Len(AllPolys(Data)) = 1


\* A group without its material, and the name of the material it has.
GroupFrame(g) == [name |-> g.name, index |-> g.index, polys |-> g.polys]

GroupMaterialName(g) ==
    IF IsSome(g.material) THEN Some(MaterialName(Unwrap(g.material))) ELSE None

\* What load_mtls_fn must leave alone: the arrays, the objects with their
\* groups but for the material, of which the name stays, and the file names
\* of the libraries.
Frame(d) ==
    [position |-> d.position,
     texture |-> d.texture,
     normal |-> d.normal,
     objects |-> [o \in 1..Len(d.objects) |->
                     [name |-> d.objects[o].name,
                      groups |-> [g \in 1..Len(d.objects[o].groups) |->
                                     <<GroupFrame(d.objects[o].groups[g]),
                                       GroupMaterialName(d.objects[o].groups[g])>>]]],
     filenames |-> [k \in 1..Len(d.material_libs) |-> d.material_libs[k].filename]]

\* C32 (resolver frame): load_mtls_fn changes only the material of groups
\* and the materials of libraries: arrays, objects, group names, indices and
\* polygons and library file names are as before, every group's material
\* name is as before, and write_to_buf writes the same text as before.
C32_ResolverFrame ==
    IsSome(mtls) =>
        /\ Frame(Original) = Frame(Data)
        /\ \A checks \in BOOLEAN :
               write_to_buf(Original, checks) = write_to_buf(Data, checks)

\* C32, witness: a group with a face and the reference A was bound to the
\* material A of the library, and a position was declared.
C32_Witness ==
    /\ IsSome(mtls)
    /\ Data.position # <<>>
    /\ \E o \in 1..Len(Data.objects) :
           \E g \in 1..Len(Data.objects[o].groups) :
               /\ Data.objects[o].groups[g].polys # <<>>
               /\ Data.objects[o].groups[g].material = Some(MaterialRef(NameA))
               /\ Original.objects[o].groups[g].material # Some(MaterialRef(NameA))


\* C33 (resolution is idempotent): a second load_mtls_fn with a resolve
\* that answers as before leaves the data equal to what the first call
\* left, and returns what the first call returned.
C33_Idempotent ==
    IsSome(again) =>
        /\ Unwrap(again).data = Original
        /\ Unwrap(again).res = Unwrap(mtls).out.res

\* C33, witness: two libraries were loaded twice, the first with a
\* material, and a group bound to a material stayed bound to it.
C33_Witness ==
    /\ IsSome(again)
    /\ Len(Original.material_libs) = 2
    /\ Original.material_libs[1].materials # <<>>
    /\ Len(Unwrap(again).data.material_libs[1].materials)
           = Len(Original.material_libs[1].materials)
    /\ \E o \in 1..Len(Original.objects) :
           \E g \in 1..Len(Original.objects[o].groups) :
               /\ IsSome(Original.objects[o].groups[g].material)
               /\ Unwrap(Original.objects[o].groups[g].material).kind = "Mtl"
               /\ Unwrap(again).data.objects[o].groups[g].material
                      = Original.objects[o].groups[g].material


(***************************************************************************)
(* The names of objects and groups                                         *)
(***************************************************************************)

\* The text of a line after its first token, without the whitespace around it.
AfterToken(line) ==
    LET s == SkipWhite(line)
    IN  Trim(SubSeq(s, Len(TakeWord(s)) + 1, Len(s)))

\* The line read last was an `o` or `g` line that the parser accepted.
JustRead(kw) ==
    /\ stream # <<>>
    /\ ret = None
    /\ IsKind(Last(stream), kw)

HasName(line) == Len(SplitWhitespace(line)) > 1

\* C34: after an `o` or `g` line that carries a name, the name of the object
\* started or of the group opened is the trimmed text after the command
\* token, with its embedded spaces, whatever whitespace precedes the token.
C34_NameExtraction ==
    /\ (JustRead(Kw_o) /\ HasName(Last(stream))) =>
           object.name = AfterToken(Last(stream))
    /\ (JustRead(Kw_g) /\ HasName(Last(stream))) =>
           /\ IsSome(group)
           /\ Unwrap(group).name = AfterToken(Last(stream))

\* C35: after an `o` line with no name token the object started is named
\* "default", whatever whitespace follows the token.
C35_DefaultObjectName ==
    (JustRead(Kw_o) /\ ~HasName(Last(stream))) => object.name = DEFAULT_OBJECT


(***************************************************************************)
(* The shape of the text Mtl::write_to_buf writes                          *)
(***************************************************************************)

\* The lines of a written material, after the first, whose keyword
\* Mtl::reload maps to the field.
WrittenFor(lines, field) ==
    {j \in (DOMAIN lines) \ {1} :
        /\ WordsOf(lines, j) # <<>>
        /\ <<WordsOf(lines, j)[1], field>> \in ValueInstructions}

\* One `newmtl` line, then exactly one instruction line for each field that
\* is set and none for a field that is not.
WellShaped(m, lines) ==
    /\ lines # <<>>
    /\ WordsOf(lines, 1) = <<Kw_newmtl, m.name>>
    /\ NewmtlNumbers(lines) = {1}
    /\ \A field \in MaterialFields :
           Cardinality(WrittenFor(lines, field)) = IF IsSome(m[field]) THEN 1 ELSE 0
    /\ \A j \in (DOMAIN lines) \ {1} : \E field \in MaterialFields : j \in WrittenFor(lines, field)

\* C36 (MTL writer output shape): for each material of a library that was
\* read, Mtl::write_to_buf writes one `newmtl` line followed by exactly one
\* instruction line for each field that is set and none for a field that is
\* not, each under a keyword that Mtl::reload maps back to the same field.
C36_WriterShape ==
    LibOk => \A k \in DOMAIN LibMaterials :
                 WellShaped(LibMaterials[k], WriteMaterial(LibMaterials[k]))


(***************************************************************************)
(* The path-based load and the collision rule                              *)
(***************************************************************************)

\* The groups `load` returned, all objects in order.
GroupsLoaded == AllGroups(Unwrap(legacy).data.objects)

\* C37: after `load` of lib.rs every group whose material name is defined by
\* a library the OBJ names is bound to a definition of that name from the
\* first such library in the order of the `mtllib` lines, as the resolver
\* binds it.
C37_LoadFirstLibraryWins ==
    (IsSome(legacy) /\ ~Unwrap(legacy).panic) =>
        /\ Len(GroupsLoaded) = Len(GroupsBefore)
        /\ \A i \in 1..Len(GroupsBefore) :
            Defined(i) =>
                /\ IsSome(GroupsLoaded[i].material)
                /\ Unwrap(GroupsLoaded[i].material).name = RefName(i)
                /\ \E d \in DOMAIN Reloaded(FirstDefining(RefName(i))).mtl.materials :
                       Reloaded(FirstDefining(RefName(i))).mtl.materials[d]
                           = Unwrap(GroupsLoaded[i].material)


(***************************************************************************)
(* The loader of 2014: groups and their index ranges                       *)
(***************************************************************************)

\* The number of the last `o` or `g` line read, 0 when there is none.
LastGroupLine ==
    IF \E i \in DOMAIN stream : IsKind(stream[i], Kw_o) \/ IsKind(stream[i], Kw_g)
    THEN CHOOSE i \in DOMAIN stream :
             /\ IsKind(stream[i], Kw_o) \/ IsKind(stream[i], Kw_g)
             /\ \A j \in DOMAIN stream :
                    (IsKind(stream[j], Kw_o) \/ IsKind(stream[j], Kw_g)) => j <= i
    ELSE 0

\* The faces of the group that is open: the `f` lines read since.
GroupFaces == {i \in DOMAIN stream : i > LastGroupLine /\ IsKind(stream[i], Kw_f)}

\* The field layouts of a face line.
Layouts(line) == {TypeOf(SplitSlash(Fields(line)[k])) : k \in DOMAIN Fields(line)}

GroupLayouts == UNION {Layouts(stream[i]) : i \in GroupFaces}

\* All faces of the open group use the same field layout.
Uniform == Cardinality(GroupLayouts) = 1

\* The number of indices the faces of the open group emitted: three for a
\* triangle, six for a quad.
RECURSIVE Emitted(_)
Emitted(faces) ==
    IF faces = {} THEN 0
    ELSE LET i == CHOOSE i \in faces : TRUE
         IN  (IF Len(Fields(stream[i])) = 3 THEN 3 ELSE 6) + Emitted(faces \ {i})

AssertionFailed == loader.status = "failed" /\ loader.failure = Some("AssertionFailed")

\* The range of the open group is the last indices of its layout's array,
\* as many as its faces emitted.
RangeCoversFaces ==
    /\ IsSome(loader.group)
    /\ Unwrap(loader.group).len = Emitted(GroupFaces)
    /\ Unwrap(loader.group).start + Unwrap(loader.group).len
           = Len(loader.dat.indices[CHOOSE vt \in GroupLayouts : TRUE])

\* C38 (loader of 2014, group accumulation): while all faces of a group use
\* the same field layout the assertion `vt == Some(vertex_type)` of the `f`
\* branch does not fail, two or more faces before any `o` or `g` line
\* included, and the group's (start, len) covers exactly the indices its
\* own faces emitted.
C38_GroupAccumulation ==
    /\ AssertionFailed => ~Uniform
    /\ (loader.status = "reading" /\ GroupFaces # {} /\ Uniform) => RangeCoversFaces


(***************************************************************************)
(* The loader of 2014: the joined-vertex tables                            *)
(***************************************************************************)

\* The table of a vertex type holds no combination twice, and its map sends
\* a combination to i exactly when entry i of the table (counted from 0) is
\* that combination.
Interned(d, vt) ==
    /\ \A i, j \in DOMAIN d.joined_vertices[vt] :
           d.joined_vertices[vt][i] = d.joined_vertices[vt][j] => i = j
    /\ DOMAIN d.joined_vertices_map[vt]
           = {d.joined_vertices[vt][i] : i \in DOMAIN d.joined_vertices[vt]}
    /\ \A key \in DOMAIN d.joined_vertices_map[vt] :
           \A i \in DOMAIN d.joined_vertices[vt] :
               d.joined_vertices_map[vt][key] = i - 1 <=> d.joined_vertices[vt][i] = key

\* The combination a face field normalizes to in the Obj d.
Combination(d, field) ==
    LET parts == SplitSlash(field)
        p == LegacyNormalize(Unwrap(FromStrIsize(parts[1])), Len(d.vertices))
    IN  CASE TypeOf(parts) = "VertexP" -> p
          [] TypeOf(parts) = "VertexPT" ->
                 <<p, LegacyNormalize(Unwrap(FromStrIsize(parts[2])), Len(d.textures))>>
          [] TypeOf(parts) = "VertexPN" ->
                 <<p, LegacyNormalize(Unwrap(FromStrIsize(parts[3])), Len(d.normals))>>
          [] OTHER ->
                 <<p, LegacyNormalize(Unwrap(FromStrIsize(parts[2])), Len(d.textures)),
                   LegacyNormalize(Unwrap(FromStrIsize(parts[3])), Len(d.normals))>>

\* A face line has just been read and accepted.
FaceRead ==
    /\ stream' # stream
    /\ IsKind(Last(stream'), Kw_f)
    /\ loader'.status = "reading"

\* The joined index the face just read gave its k-th field: where the
\* field's index lies among the indices the face pushed.
JoinedIndex(vt, k) ==
    loader'.dat.indices[vt][Len(loader.dat.indices[vt]) + (IF k = 4 THEN 5 ELSE k)]

\* Each field of the face just read got the index of its combination, and
\* two fields got the same index exactly when their combinations are equal.
FaceInterned ==
    LET fields == Fields(Last(stream'))
        vt == TypeOf(SplitSlash(fields[1]))
    IN  \A k, l \in DOMAIN fields :
            /\ loader'.dat.joined_vertices[vt][JoinedIndex(vt, k) + 1]
                   = Combination(loader.dat, fields[k])
            /\ JoinedIndex(vt, k) = JoinedIndex(vt, l)
                   <=> Combination(loader.dat, fields[k]) = Combination(loader.dat, fields[l])

\* The tables only grow at the end while the load goes on.
TablesKept ==
    loader'.status # "failed" =>
        \A vt \in VertexTypes :
            /\ Len(loader'.dat.joined_vertices[vt]) >= Len(loader.dat.joined_vertices[vt])
            /\ SubSeq(loader'.dat.joined_vertices[vt], 1, Len(loader.dat.joined_vertices[vt]))
                   = loader.dat.joined_vertices[vt]

\* C39 (loader of 2014, vertex interning): after any sequence of faces each
\* of the four joined-vertex tables holds every combination once, its map
\* sends a combination to i exactly when entry i of the table is that
\* combination, and two face fields get the same joined index exactly when
\* they normalize to the same combination (an index keeps its combination:
\* the tables only grow at the end).
C39_VertexInterning ==
    /\ [](\A vt \in VertexTypes : Interned(loader.dat, vt))
    /\ [][TablesKept /\ (FaceRead => FaceInterned)]_vars

\* C39, witness: after `v 0 0 0` the face `f 1 -1 2` was read: its first two
\* fields normalize to the same position and share the joined index 0, the
\* third got the index 1.
C39_Witness ==
    /\ class = "legacy"
    /\ loader.status = "reading"
    /\ stream = <<Sp(<<Kw_v, N0, N0, N0>>), Face(N1, M1, N2)>>
    /\ loader.dat.joined_vertices["VertexP"] = <<0, 1>>
    /\ loader.dat.indices["VertexP"] = <<0, 0, 1>>

====
